---- MODULE Spec2Model ----
\* MindMitra memory pipeline: MemoryDeduplicator (tiered routing with
\* similarity merge) and EpisodicPromoter (pattern tracking and promotion),
\* src/chatbotAgent/memory_architecture.py, with the embedding service of
\* src/chatbotAgent/embeddings_service.py.
\*
\* Numbers: confidences and similarities are fixed-point, in thousandths
\* (0.4 is 400, 1.0 is 1000). Texts are sequences of character codes.
EXTENDS Integers, Sequences, FiniteSets

VARIABLES
    global_memories,    \* table global_memories: sequence of rows, row i has id i
    session_memories,   \* table session_memories: sequence of rows, row i has id i
    episodic_tracker,   \* table episodic_tracker: sequence of rows, row i has id i
    proc,               \* per worker: the call in progress, its locals and its outcome
    model_loaded,       \* EmbeddingService._model_loaded
    calls,              \* number of calls started so far
    faults,             \* number of collaborator failures injected so far
    memories,           \* table memories: one row per extraction batch
    retrieved,          \* the last retrieve_memories call and what it returned
    hash_run,           \* compute_pattern_hash on a content and a rewording of it
    extraction,         \* the last unified extraction call and what it returned
    service,            \* EmbeddingService: the class attributes _instance, _lock, _model
    embed_proc,         \* per caller of the service: its position and its outcome
    llm_run             \* the call of _get_llm_response: its attempts and its outcome

\* The stores, the workers and the runs of the retrieval and of the hash.
store_vars == <<global_memories, session_memories, episodic_tracker, proc, model_loaded, calls,
                faults, memories, retrieved, hash_run>>

\* The calls of the functions that touch no store.
unit_vars == <<extraction, service, embed_proc, llm_run>>

vars == <<store_vars, unit_vars>>

\* ---------------------------------------------------------------- bounds

MaxCalls == 3

MaxFaults == 1

MaxRewords == 3

MaxBatches == 2

\* ------------------------------------------------------- program constants

\* min(1.0, ...): the unit of the fixed-point scale
ONE == 1000

\* if confidence < 0.4
DISCARD_THRESHOLD == 400

\* if confidence >= 0.6
GLOBAL_THRESHOLD == 600

\* 'p_similarity_threshold': 0.85
SIMILARITY_THRESHOLD == 850

\* memory.get('confidence', 0.5)
DEFAULT_CONFIDENCE == 500

\* ------------------------------------------------------------ Python values

\* A Python value of one of the kinds the handlers meet. "absent" is a key
\* missing from a dict, "none" is None.
PyNum(x) == [kind |-> "num", n |-> x, s |-> <<>>, b |-> FALSE]

PyStr(x) == [kind |-> "str", n |-> 0, s |-> x, b |-> FALSE]

PyBool(x) == [kind |-> "bool", n |-> 0, s |-> <<>>, b |-> x]

PyNone == [kind |-> "none", n |-> 0, s |-> <<>>, b |-> FALSE]

PyAbsent == [kind |-> "absent", n |-> 0, s |-> <<>>, b |-> FALSE]

\* dict.get(key, default)
DictGet(v, default) == IF v.kind = "absent" THEN default ELSE v

\* bool(v)
Truthy(v) ==
    CASE v.kind = "none" -> FALSE
      [] v.kind = "bool" -> v.b
      [] v.kind = "num"  -> v.n # 0
      [] v.kind = "str"  -> Len(v.s) > 0
      [] OTHER -> FALSE

\* v < 0.4 and v >= 0.6 are defined for numbers (bool is an int); anything
\* else raises TypeError
Comparable(v) == v.kind \in {"num", "bool"}

NumberOf(v) == IF v.kind = "bool" THEN (IF v.b THEN ONE ELSE 0) ELSE v.n

\* v[:50] is defined for strings; None[:50] raises TypeError
Sliceable(v) == v.kind = "str"

Min(a, b) == IF a <= b THEN a ELSE b

Max(a, b) == IF a >= b THEN a ELSE b

Abs(a) == IF a >= 0 THEN a ELSE 0 - a

\* ------------------------------------------------------------------- texts

TxtA == <<100, 101, 101, 112, 32, 98, 114, 101, 97, 116, 104, 105, 110, 103>>   \* "deep breathing"

TxtA2 == <<68, 101, 101, 112, 32, 98, 114, 101, 97, 116, 104, 105, 110, 103, 33>>   \* "Deep breathing!"

TxtC == <<115, 108, 111, 119, 32, 98, 114, 101, 97, 116, 104, 105, 110, 103>>   \* "slow breathing"

TxtBlank == <<32, 32>>   \* "  "

EpiA == <<102, 101, 108, 116, 32, 65, 110, 120, 105, 111, 117, 115, 32, 116, 111, 100, 97, 121>>   \* "felt Anxious today"

EpiA2 == <<84, 79, 68, 65, 89, 32, 97, 110, 120, 105, 111, 117, 115>>   \* "TODAY anxious"

EpiB == <<99, 97, 108, 109, 32, 119, 97, 108, 107, 32, 111, 117, 116, 115, 105, 100, 101>>   \* "calm walk outside"

InsightA == <<97, 110, 120, 105, 111, 117, 115, 32, 111, 102, 116, 101, 110>>   \* "anxious often"

IsSpace(c) == c \in {9, 10, 11, 12, 13, 32}

\* str.strip() == ''
IsBlank(s) == \A i \in 1..Len(s) : IsSpace(s[i])

Users == {"U1", "U2"}

Sessions == {"S1", "S2"}

MemoryTypes == {"semantic", "procedural"}

Workers == {"w1", "w2"}

\* ------------------------------------------------------ embedding service

\* A 384-dimensional unit vector is represented by a point on a line, chosen so
\* that cosine similarity falls with distance; the all-zero vector is apart.
ZeroVec == [zero |-> TRUE, p |-> 0]

Vec(x) == [zero |-> FALSE, p |-> x]

\* The sentence-transformer model: which texts lie near which.
EmbeddingOf(s) ==
    CASE s = TxtA     -> Vec(0)
      [] s = TxtA2    -> Vec(1)
      [] s = TxtC     -> Vec(4)
      [] s = InsightA -> Vec(30)
      [] OTHER        -> Vec(60)

\* Cosine similarity in thousandths; a zero vector is similar to nothing.
Similarity(e1, e2) ==
    IF e1.zero \/ e2.zero THEN 0 ELSE Max(0, ONE - 40 * Abs(e1.p - e2.p))

\* embed_text(text): the outcomes of one call, given whether the model is
\* loaded and whether a failure may be injected. failure is "load" when
\* _load_model raised, "encode" when model.encode raised.
EmbedOutcomes(text, loaded, mayFail) ==
    LET out(r, v, l, f) == [raised |-> r, vec |-> v, loaded |-> l, failure |-> f]
        afterLoad ==
            IF ~Truthy(text) \/ (text.kind = "str" /\ IsBlank(text.s))
            THEN {out(FALSE, ZeroVec, TRUE, "none")}
            ELSE IF text.kind # "str"
            THEN {out(TRUE, ZeroVec, TRUE, "none")}
            ELSE {out(FALSE, EmbeddingOf(text.s), TRUE, "none")}
                 \cup (IF mayFail THEN {out(FALSE, ZeroVec, TRUE, "encode")} ELSE {})
    IN  afterLoad
        \cup (IF ~loaded /\ mayFail THEN {out(TRUE, ZeroVec, FALSE, "load")} ELSE {})

\* ------------------------------------------------------------------ store

NoGlobal ==
    [id |-> 0, user_id |-> "", memory_type |-> "", content |-> PyNone,
     embedding |-> ZeroVec, confidence_score |-> 0, occurrence_count |-> 0,
     source_session_ids |-> <<>>, access_count |-> 0,
     origin |-> "none", tracker_id |-> 0, initial_count |-> 0, merges |-> 0]

SeqToSet(q) == {q[i] : i \in 1..Len(q)}

\* RPC find_similar_global_memories: the rows of the user and type whose
\* similarity to the embedding reaches the threshold, each with its similarity.
FindSimilar(rows, embedding, user_id, memory_type, threshold) ==
    {[row |-> r, similarity |-> Similarity(embedding, r.embedding)] :
        r \in {x \in SeqToSet(rows) :
                 /\ x.user_id = user_id
                 /\ x.memory_type = memory_type
                 /\ Similarity(embedding, x.embedding) >= threshold}}

\* The RPC returns the rows by descending similarity; the order among equally
\* similar rows is the store's choice.
FirstOfSimilarAny(similar) == similar

\* similar_mems[0]
FirstOfSimilar(similar) ==
    {m \in similar : \A o \in similar : o.similarity <= m.similarity}

\* ------------------------------------------------------ MemoryDeduplicator

NoMemory == [content |-> PyAbsent, confidence |-> PyAbsent, worth_saving |-> PyAbsent]

MemoryContent(memory) == DictGet(memory.content, PyStr(<<>>))

MemoryConfidence(memory) == DictGet(memory.confidence, PyNum(DEFAULT_CONFIDENCE))

\* not memory.get('worth_saving', True)
NotWorthSaving(memory) == ~Truthy(DictGet(memory.worth_saving, PyBool(TRUE)))

BelowThresholdNever(confidence) == FALSE

\* confidence < 0.4
BelowThreshold(confidence) == confidence < DISCARD_THRESHOLD

\* The statements before the try block: "discard" returns None, "raise" lets a
\* TypeError out, "proceed" enters the try block.
RouteEntry(memory) ==
    IF NotWorthSaving(memory)
    THEN (IF Sliceable(MemoryContent(memory)) THEN "discard" ELSE "raise")
    ELSE IF ~Comparable(MemoryConfidence(memory)) THEN "raise"
    ELSE IF BelowThreshold(NumberOf(MemoryConfidence(memory)))
    THEN (IF Sliceable(MemoryContent(memory)) THEN "discard" ELSE "raise")
    ELSE "proceed"

\* if confidence >= 0.6: global tier, else session tier
Tier(confidence) == IF confidence >= GLOBAL_THRESHOLD THEN "global" ELSE "session"

BoostConfidenceUncapped(old_conf) == (old_conf * 12) \div 10 + 100

\* new_conf = min(1.0, old_conf * 1.2 + 0.1)
BoostConfidence(old_conf) == Min(ONE, (old_conf * 12) \div 10 + 100)

\* if session_id not in session_ids: session_ids.append(session_id)
AppendIfAbsent(session_ids, session_id) ==
    IF session_id \in SeqToSet(session_ids) THEN session_ids
    ELSE Append(session_ids, session_id)

\* Rows of global_memories carry three fields that are not columns of the
\* table: origin ("route" or "promotion"), tracker_id (the tracker a promotion
\* came from), initial_count (occurrence_count at insert) and merges (the
\* number of merge updates applied to the row). They record history only.

\* The row after the update of a merge: the five columns are computed from the
\* row as it was read (existing), the others stay as they are (current).
MergedRow(current, existing, session_id) ==
    [current EXCEPT
        !.confidence_score = BoostConfidence(existing.confidence_score),
        !.occurrence_count = existing.occurrence_count + 1,
        !.source_session_ids = AppendIfAbsent(existing.source_session_ids, session_id),
        !.access_count = existing.access_count + 1,
        !.merges = current.merges + 1]

NewGlobalRowMerging(id, content, embedding, confidence, memory_type, session_id, user_id) ==
    [id |-> id, user_id |-> user_id, memory_type |-> memory_type,
     content |-> content, embedding |-> embedding, confidence_score |-> confidence,
     occurrence_count |-> 2, source_session_ids |-> <<session_id>>, access_count |-> 1,
     origin |-> "route", tracker_id |-> 0, initial_count |-> 1, merges |-> 1]

NewGlobalRowCountZero(id, content, embedding, confidence, memory_type, session_id, user_id) ==
    [id |-> id, user_id |-> user_id, memory_type |-> memory_type,
     content |-> content, embedding |-> embedding,
     confidence_score |-> confidence, occurrence_count |-> 0,
     source_session_ids |-> <<session_id>>, access_count |-> 0,
     origin |-> "route", tracker_id |-> 0, initial_count |-> 0, merges |-> 0]

\* The row inserted into global_memories when nothing similar exists.
NewGlobalRow(id, content, embedding, confidence, memory_type, session_id, user_id) ==
    [id |-> id, user_id |-> user_id, memory_type |-> memory_type,
     content |-> content, embedding |-> embedding,
     confidence_score |-> confidence, occurrence_count |-> 1,
     source_session_ids |-> <<session_id>>, access_count |-> 0,
     origin |-> "route", tracker_id |-> 0, initial_count |-> 1, merges |-> 0]

NewSessionRowNoUser(id, content, confidence, memory_type, session_id, user_id) ==
    [id |-> id, session_id |-> session_id, user_id |-> "",
     memory_type |-> memory_type, content |-> content,
     confidence_score |-> confidence]

\* The row inserted into session_memories.
NewSessionRow(id, content, confidence, memory_type, session_id, user_id) ==
    [id |-> id, session_id |-> session_id, user_id |-> user_id,
     memory_type |-> memory_type, content |-> content,
     confidence_score |-> confidence]

\* -------------------------------------------------------- EpisodicPromoter

\* str.lower(), on ASCII
LowerChar(c) == IF c >= 65 /\ c <= 90 THEN c + 32 ELSE c

Lower(s) == [i \in 1..Len(s) |-> LowerChar(s[i])]

RECURSIVE SplitFrom(_, _, _, _)
\* str.split(): the maximal runs of non-space characters, in order
SplitFrom(s, i, word, words) ==
    IF i > Len(s)
    THEN (IF word = <<>> THEN words ELSE Append(words, word))
    ELSE IF IsSpace(s[i])
    THEN SplitFrom(s, i + 1, <<>>, IF word = <<>> THEN words ELSE Append(words, word))
    ELSE SplitFrom(s, i + 1, Append(word, s[i]), words)

Split(s) == SplitFrom(s, 1, <<>>, <<>>)

\* str.isalpha(), on ASCII
IsAlpha(word) ==
    /\ Len(word) > 0
    /\ \A i \in 1..Len(word) :
          (word[i] >= 65 /\ word[i] <= 90) \/ (word[i] >= 97 /\ word[i] <= 122)

\* len(w) > 4 and w.isalpha()
IsKeyword(word) == Len(word) > 4 /\ IsAlpha(word)

\* [...][:5]
FirstFive(words) == SubSeq(words, 1, Min(5, Len(words)))

RECURSIVE StrLess(_, _)
\* a < b on Python strings: lexicographic on the character codes
StrLess(a, b) ==
    IF b = <<>> THEN FALSE
    ELSE IF a = <<>> THEN TRUE
    ELSE IF a[1] # b[1] THEN a[1] < b[1]
    ELSE StrLess(Tail(a), Tail(b))

RECURSIVE InsertSorted(_, _)
InsertSorted(word, sorted) ==
    IF sorted = <<>> THEN <<word>>
    ELSE IF StrLess(sorted[1], word) THEN <<sorted[1]>> \o InsertSorted(word, Tail(sorted))
    ELSE <<word>> \o sorted

RECURSIVE Sorted(_)
\* sorted(keywords)
Sorted(words) ==
    IF words = <<>> THEN <<>> ELSE InsertSorted(words[1], Sorted(Tail(words)))

RECURSIVE Join(_)
\* "_".join(words)
Join(words) ==
    IF words = <<>> THEN <<>>
    ELSE IF Len(words) = 1 THEN words[1]
    ELSE words[1] \o <<95>> \o Join(Tail(words))

\* hashlib.md5(s.encode()).hexdigest()[:16], taken to be free of collisions:
\* the digest stands for the string it was computed from.
Md5Hex16(s) == [md5_of |-> s]

\* compute_pattern_hash on a text content
ComputePatternHash(content) ==
    Md5Hex16(Join(Sorted(FirstFive(SelectSeq(Split(Lower(content)), IsKeyword)))))

NoTracker ==
    [id |-> 0, user_id |-> "", pattern_hash |-> Md5Hex16(<<>>), occurrences |-> <<>>,
     occurrence_count |-> 0, promoted_to_semantic_id |-> 0]

\* {'content': ..., 'session_id': ..., 'timestamp': ...}, the timestamp left out
Occurrence(content, session_id) == [content |-> content, session_id |-> session_id]

\* The row inserted into episodic_tracker for a new pattern;
\* promoted_to_semantic_id 0 stands for NULL.
NewTrackerRow(id, user_id, pattern_hash, content, session_id) ==
    [id |-> id, user_id |-> user_id, pattern_hash |-> pattern_hash,
     occurrences |-> <<Occurrence(content, session_id)>>,
     occurrence_count |-> 1, promoted_to_semantic_id |-> 0]

\* The rows of episodic_tracker with the user and pattern hash.
TrackerRows(rows, user_id, pattern_hash) ==
    {r \in SeqToSet(rows) : r.user_id = user_id /\ r.pattern_hash = pattern_hash}

ShouldPromoteAgain(new_count, existing) == new_count >= 2

\* if new_count >= 2 and not existing.get('promoted_to_semantic_id')
ShouldPromote(new_count, existing) ==
    new_count >= 2 /\ existing.promoted_to_semantic_id = 0

\* The replies of the promoter's LLM: the text of a JSON object with the
\* fields given ("absent" for a missing key), a fenced JSON object, or text
\* that is no JSON.
Reply(form, insight, confidence) ==
    [form |-> form, insight |-> insight, confidence |-> confidence]

LLMReplies ==
    { Reply("json", PyStr(InsightA), PyNum(800)),
      Reply("json", PyStr(InsightA), PyAbsent),
      Reply("json", PyAbsent, PyNum(800)),
      Reply("json", PyStr(InsightA), PyNum(300)),
      Reply("fenced", PyStr(InsightA), PyNum(800)),
      Reply("not_json", PyAbsent, PyAbsent) }

\* 'Repeated pattern observed'
DefaultInsight == <<82, 101, 112, 101, 97, 116, 101, 100, 32, 112, 97, 116, 116, 101, 114, 110, 32, 111, 98, 115, 101, 114, 118, 101, 100>>

\* The parse of a reply: cleaned = content.strip().strip("`") leaves the word
\* json in front of a fenced object, so json.loads raises on it as on text
\* that is no JSON; float(None) raises.
ParseReply(reply) ==
    LET insight == DictGet(reply.insight, PyStr(DefaultInsight))
        confidence == DictGet(reply.confidence, PyNum(700))
    IN  IF reply.form # "json" \/ ~Comparable(confidence)
        THEN [raised |-> TRUE, insight |-> PyNone, confidence |-> 0]
        ELSE [raised |-> FALSE, insight |-> insight, confidence |-> NumberOf(confidence)]

RECURSIVE SessionIdsOf(_)
\* [occ.get('session_id') for occ in occurrences]
SessionIdsOf(occurrences) ==
    IF occurrences = <<>> THEN <<>>
    ELSE <<occurrences[1].session_id>> \o SessionIdsOf(Tail(occurrences))

\* The row inserted into global_memories by a promotion.
NewPromotedRow(id, insight, embedding, confidence, occurrences, user_id, tracker_id) ==
    [id |-> id, user_id |-> user_id, memory_type |-> "semantic",
     content |-> insight, embedding |-> embedding,
     confidence_score |-> confidence, occurrence_count |-> Len(occurrences),
     source_session_ids |-> SessionIdsOf(occurrences), access_count |-> 0,
     origin |-> "promotion", tracker_id |-> tracker_id,
     initial_count |-> Len(occurrences), merges |-> 0]

\* --------------------------------------------------------- MemoryRetriever

\* A memory as retrieve_memories returns it: the table and row it comes
\* from (for an episodic memory, its position in the row's list too).
RetrievedMemory(table, id, pos, memory_type, user_id, session_id, content) ==
    [table |-> table, id |-> id, pos |-> pos, memory_type |-> memory_type,
     user_id |-> user_id, session_id |-> session_id, content |-> content]

\* A row of the table memories: one extraction batch of a session, with the
\* episodic memories of the batch as a list of contents.
MemoriesRow(id, user_id, session_id, episodic_memories) ==
    [id |-> id, user_id |-> user_id, session_id |-> session_id,
     episodic_memories |-> episodic_memories]

RECURSIVE RankedFrom(_, _, _)
\* The rows of ids by descending combined score, rows of equal score by id.
RankedFrom(ids, rows, embedding) ==
    IF ids = {} THEN <<>>
    ELSE LET score(i) == Similarity(embedding, rows[i].embedding)
             best == CHOOSE i \in ids :
                        \A j \in ids : score(i) > score(j) \/ (score(i) = score(j) /\ i <= j)
         IN  <<rows[best]>> \o RankedFrom(ids \ {best}, rows, embedding)

\* The store's search_memories_hybrid: the rows of the user with a requested
\* type and confidence_score >= the threshold, the best p_limit of them by
\* combined score (here the similarity to the query embedding).
SearchMemoriesHybrid(rows, embedding, user_id, memory_types, threshold, limit) ==
    LET ids == {i \in 1..Len(rows) :
                  /\ rows[i].user_id = user_id
                  /\ rows[i].memory_type \in memory_types
                  /\ rows[i].confidence_score >= threshold}
        ranked == RankedFrom(ids, rows, embedding)
        found == SubSeq(ranked, 1, Min(limit, Len(ranked)))
    IN  [k \in 1..Len(found) |->
            RetrievedMemory("global_memories", found[k].id, 0, found[k].memory_type,
                            found[k].user_id, "", found[k].content)]

\* retrieve_global_memories: the search, [] when the store call raises
RetrieveGlobalMemories(rows, embedding, memory_types, threshold, user_id, top_k, fails) ==
    IF fails THEN <<>>
    ELSE SearchMemoriesHybrid(rows, embedding, user_id, memory_types, threshold, top_k)

\* fetch_session_memories: the rows of the session with a requested type, in
\* creation order; [] when the store call raises
FetchSessionMemories(rows, session_id, memory_types, fails) ==
    IF fails THEN <<>>
    ELSE LET Wanted(r) == r.session_id = session_id /\ r.memory_type \in memory_types
             found == SelectSeq(rows, Wanted)
         IN  [k \in 1..Len(found) |->
                 RetrievedMemory("session_memories", found[k].id, 0, found[k].memory_type,
                                 found[k].user_id, found[k].session_id, found[k].content)]

RECURSIVE FlattenEpisodics(_)
\* episodics.extend(ep_list) over the rows, in order
FlattenEpisodics(rows) ==
    IF rows = <<>> THEN <<>>
    ELSE LET r == rows[1]
         IN  [k \in 1..Len(r.episodic_memories) |->
                 RetrievedMemory("memories", r.id, k, "episodic", r.user_id,
                                 r.session_id, r.episodic_memories[k])]
             \o FlattenEpisodics(Tail(rows))

\* fetch_current_session_episodics: the episodic memories of the rows of the
\* session in creation order; [] when the store call raises
FetchCurrentSessionEpisodics(rows, session_id, fails) ==
    IF fails THEN <<>>
    ELSE LET OfSession(r) == r.session_id = session_id
         IN  FlattenEpisodics(SelectSeq(rows, OfSession))

Buckets == {"semantic", "procedural", "episodic"}

EmptyResult == [b \in Buckets |-> <<>>]

\* All memories go to the semantic bucket.
SeparateByTypeAllSemantic(result, mems) == [result EXCEPT !["semantic"] = @ \o mems]

\* for mem in mems: if mem_type in result: result[mem_type].append(mem)
SeparateByType(result, mems) ==
    [b \in Buckets |->
        LET OfType(m) == m.memory_type = b
        IN  result[b] \o SelectSeq(mems, OfType)]

\* The episodics are appended to the bucket.
SetEpisodicAppending(result, episodics) == [result EXCEPT !["episodic"] = @ \o episodics]

\* result['episodic'] = episodics
SetEpisodic(result, episodics) == [result EXCEPT !["episodic"] = episodics]

\* retrieve_memories: the three fetches and the buckets built from them;
\* failed holds the sources whose store call raises.
RetrieveFrom(global_rows, session_rows, memories_rows, q, failed) ==
    LET global_mems ==
            IF "semantic" \in q.memory_types \/ "procedural" \in q.memory_types
            THEN RetrieveGlobalMemories(global_rows, q.query_embedding,
                                        q.memory_types, q.confidence_threshold,
                                        q.user_id, q.top_k, "global" \in failed)
            ELSE <<>>
        session_mems == FetchSessionMemories(session_rows, q.session_id,
                                             q.memory_types, "session" \in failed)
        episodics == FetchCurrentSessionEpisodics(memories_rows, q.session_id,
                                                  "episodic" \in failed)
    IN  SetEpisodic(SeparateByType(SeparateByType(EmptyResult, global_mems),
                                   session_mems),
                    episodics)

\* retrieve_memories on the three tables of the store
RetrieveResult(q, failed) ==
    RetrieveFrom(global_memories, session_memories, memories, q, failed)

\* Nothing retrieved yet.
NoRetrieval ==
    [called |-> FALSE, query |-> [query_embedding |-> ZeroVec, memory_types |-> {},
                                  confidence_threshold |-> 0, user_id |-> "",
                                  session_id |-> "", top_k |-> 0],
     failed |-> {}, result |-> EmptyResult]

\* ------------------------------------------- contents for compute_pattern_hash

WAnxious == <<97, 110, 120, 105, 111, 117, 115>>   \* "anxious"

WPresentation == <<112, 114, 101, 115, 101, 110, 116, 97, 116, 105, 111, 110>>   \* "presentation"

WBreathing == <<98, 114, 101, 97, 116, 104, 105, 110, 103>>   \* "breathing"

WExercises == <<101, 120, 101, 114, 99, 105, 115, 101, 115>>   \* "exercises"

WHelped == <<104, 101, 108, 112, 101, 100>>   \* "helped"

WBefore == <<98, 101, 102, 111, 114, 101>>   \* "before"

WVery == <<118, 101, 114, 121>>   \* "very"

\* The word lists the contents are built from: two keywords and a short
\* word, five keywords, six keywords.
HashBases ==
    { <<WVery, WAnxious, WPresentation>>,
      <<WAnxious, WPresentation, WBreathing, WExercises, WHelped>>,
      <<WAnxious, WPresentation, WBreathing, WExercises, WHelped, WBefore>> }

RECURSIVE Unwords(_)
\* The content whose words are the list, separated by single spaces.
Unwords(words) ==
    IF words = <<>> THEN <<>>
    ELSE IF Len(words) = 1 THEN words[1]
    ELSE words[1] \o <<32>> \o Unwords(Tail(words))

UpperChar(c) == IF c >= 97 /\ c <= 122 THEN c - 32 ELSE c

Upper(s) == [i \in 1..Len(s) |-> UpperChar(s[i])]

\* The list with the words at i and i + 1 exchanged.
SwapWords(words, i) ==
    [k \in 1..Len(words) |->
        IF k = i THEN words[i + 1] ELSE IF k = i + 1 THEN words[i] ELSE words[k]]

\* The list with the letter case of word i changed.
RecaseWord(words, i) ==
    [words EXCEPT ![i] = IF @ = Lower(@) THEN Upper(@) ELSE Lower(@)]



NoHashRun ==
    [a |-> <<>>, b |-> <<>>, hash_a |-> Md5Hex16(<<>>), hash_b |-> Md5Hex16(<<>>),
     rewords |-> 0]

\* ------------------------------------------------------- EmbeddingService

\* The class attributes before any construction: _instance None (0), _model
\* None, the lock free; created counts the instances made by
\* super().__new__, loads the successful loads of the model.
NoService == [instance |-> 0, created |-> 0, lock |-> "none", model |-> FALSE, loads |-> 0]

\* A caller of the service that has not called yet.
IdleCaller ==
    [pc |-> "idle", text |-> PyNone, self |-> 0, raised |-> FALSE, vec |-> ZeroVec,
     failure |-> "none", load_tried |-> FALSE]

\* The second test of _model_loaded is skipped.
LoadedUnderLockNever(loaded) == FALSE

\* if self._model_loaded: return, inside the lock
LoadedUnderLock(loaded) == loaded

\* not text or not text.strip()
EmptyText(text) == ~Truthy(text) \/ (text.kind = "str" /\ IsBlank(text.s))

\* ------------------------------------- UniversalMemorySystem, unified extraction

ExtractionTypes == {"semantic", "procedural", "episodic"}

IsDigit(c) == c >= 48 /\ c <= 57

RECURSIVE DigitsValue(_)
\* The number written by a sequence of decimal digits.
DigitsValue(s) ==
    IF s = <<>> THEN 0 ELSE DigitsValue(SubSeq(s, 1, Len(s) - 1)) * 10 + (s[Len(s)] - 48)

\* float(s) of a string: a plain decimal ("0.8", "1", ".75") gives its value
\* in thousandths, any other text here raises ValueError.
FloatOfStr(s) ==
    LET dots == {i \in 1..Len(s) : s[i] = 46}
        wellformed == /\ \A i \in 1..Len(s) : IsDigit(s[i]) \/ s[i] = 46
                      /\ Cardinality(dots) <= 1
                      /\ \E i \in 1..Len(s) : IsDigit(s[i])
        d == IF dots = {} THEN Len(s) + 1 ELSE CHOOSE i \in dots : TRUE
        whole == SubSeq(s, 1, d - 1)
        frac == SubSeq(s, d + 1, Len(s)) \o <<48, 48, 48>>
    IN  IF wellformed
        THEN [raised |-> FALSE, n |-> DigitsValue(whole) * ONE + DigitsValue(SubSeq(frac, 1, 3))]
        ELSE [raised |-> TRUE, n |-> 0]

\* float(v): a number or bool converts, a string is parsed, None raises
\* TypeError.
FloatOf(v) ==
    CASE v.kind \in {"num", "bool"} -> [raised |-> FALSE, n |-> NumberOf(v)]
      [] v.kind = "str" -> FloatOfStr(v.s)
      [] OTHER -> [raised |-> TRUE, n |-> 0]

\* The validation of one candidate (lines 712-721): the defaults for the missing
\* keys, then the two type conversions. mem['confidence'] >= 0.4 and
\* float(mem['confidence']) raise on a value they are not defined for.
ValidateCandidate(mem) ==
    LET confidence == DictGet(mem.confidence, PyNum(DEFAULT_CONFIDENCE))
        compared == mem.worth_saving.kind = "absent"
        worth_saving == IF compared /\ Comparable(confidence)
                        THEN PyBool(NumberOf(confidence) >= DISCARD_THRESHOLD)
                        ELSE mem.worth_saving
        converted == FloatOf(confidence)
    IN  IF (compared /\ ~Comparable(confidence)) \/ converted.raised
        THEN [raised |-> TRUE, mem |-> mem]
        ELSE [raised |-> FALSE,
              mem |-> [mem EXCEPT !.confidence = PyNum(converted.n),
                                  !.worth_saving = PyBool(Truthy(worth_saving))]]

\* 'Summary unavailable'
SummaryUnavailable == <<83, 117, 109, 109, 97, 114, 121, 32, 117, 110, 97, 118, 97, 105, 108, 97, 98, 108, 101>>

\* _get_empty_extraction_result
EmptyExtractionResult ==
    [summary |-> PyStr(SummaryUnavailable), memories |-> [t \in ExtractionTypes |-> <<>>]]

\* A list of parsed['memories'], or the key missing.
MemList(items) == [present |-> TRUE, items |-> items]

NoMemList == [present |-> FALSE, items |-> <<>>]

\* The text of a reply of the extraction LLM: a JSON object ("json"), the
\* same inside a markdown fence ("fenced"), text that is no JSON ("not_json")
\* or the empty text ("empty"). The object may lack session_summary or
\* memories; summary is session_summary['summary'].
UnifiedReply(form, has_summary, summary, has_memories, lists) ==
    [form |-> form, has_summary |-> has_summary, summary |-> summary,
     has_memories |-> has_memories, lists |-> lists]

ValidateEach(items) == [k \in 1..Len(items) |-> ValidateCandidate(items[k])]

\* _parse_unified_extraction: the fence is removed, json.loads raises on text
\* that is no JSON, an object lacking a required key gives the empty result,
\* a missing list becomes [], and any exception of the validation loop is
\* caught and gives the empty result.
ParseUnifiedExtraction(content) ==
    IF content.form \notin {"json", "fenced"} THEN EmptyExtractionResult
    ELSE IF ~content.has_summary \/ ~content.has_memories THEN EmptyExtractionResult
    ELSE LET validated == [t \in ExtractionTypes |-> ValidateEach(content.lists[t].items)]
         IN  IF \E t \in ExtractionTypes : \E k \in 1..Len(validated[t]) : validated[t][k].raised
             THEN EmptyExtractionResult
             ELSE [summary |-> content.summary,
                   memories |-> [t \in ExtractionTypes |->
                                   [k \in 1..Len(validated[t]) |-> validated[t][k].mem]]]

\* The outcome of self.model.generate_content: it raises, or gives a text.
LLMRaises == [raises |-> TRUE, content |-> UnifiedReply("empty", FALSE, PyAbsent, FALSE, [t \in ExtractionTypes |-> NoMemList])]

LLMText(content) == [raises |-> FALSE, content |-> content]

\* extract_all_with_summary_unified: the log line with session_id[:8] and the
\* formatting of the messages with m.get('content', '')[:300] come before the
\* try; inside it the LLM call, the empty-text test, the parse, and the log
\* line reading result['session_summary']['summary'][:100].
ExtractAllWithSummaryUnified(messages, session_id, llm) ==
    IF ~Sliceable(session_id)
       \/ \E i \in 1..Len(messages) : ~Sliceable(DictGet(messages[i], PyStr(<<>>)))
    THEN [raised |-> TRUE, result |-> EmptyExtractionResult]
    ELSE IF llm.raises \/ llm.content.form = "empty"
    THEN [raised |-> FALSE, result |-> EmptyExtractionResult]
    ELSE LET result == ParseUnifiedExtraction(llm.content)
         IN  IF ~Sliceable(result.summary)
             THEN [raised |-> FALSE, result |-> EmptyExtractionResult]
             ELSE [raised |-> FALSE, result |-> result]

\* No extraction made yet.
NoExtraction ==
    [op |-> "none", messages |-> <<>>, session_id |-> PyNone, llm |-> LLMRaises,
     raised |-> FALSE, result |-> EmptyExtractionResult]

\* --------------------------------- UniversalMemorySystem._get_llm_response

\* max_retries: int = 3
DEFAULT_MAX_RETRIES == 3

RECURSIVE StripLeft(_)
StripLeft(s) == IF s # <<>> /\ IsSpace(s[1]) THEN StripLeft(Tail(s)) ELSE s

RECURSIVE StripRight(_)
StripRight(s) ==
    IF s # <<>> /\ IsSpace(s[Len(s)]) THEN StripRight(SubSeq(s, 1, Len(s) - 1)) ELSE s

\* s.strip()
Strip(s) == StripRight(StripLeft(s))

StartsWith(s, p) == Len(s) >= Len(p) /\ SubSeq(s, 1, Len(p)) = p

EndsWith(s, p) == Len(s) >= Len(p) /\ SubSeq(s, Len(s) - Len(p) + 1, Len(s)) = p

\* "```"
Fence == <<96, 96, 96>>

\* "```json"
FenceJson == <<96, 96, 96, 106, 115, 111, 110>>

\* re.sub(r'^<p>\s*', '', s)
DropPrefix(s, p) ==
    IF StartsWith(s, p) THEN StripLeft(SubSeq(s, Len(p) + 1, Len(s))) ELSE s

\* re.sub(r'\s*<p>$', '', s)
DropSuffix(s, p) ==
    IF EndsWith(s, p) THEN StripRight(SubSeq(s, 1, Len(s) - Len(p))) ELSE s

\* The three re.sub calls and the strip around them (lines 387-391).
CleanResponse(text) ==
    Strip(DropSuffix(DropPrefix(DropPrefix(Strip(text), FenceJson), Fence), Fence))

\* re.search(r'\[.*\]', s, re.DOTALL): the text from the first '[' to the
\* last ']' when there is one after it, else the text as it is.
ExtractList(s) ==
    LET opens == {i \in 1..Len(s) : s[i] = 91}
        closes == {i \in 1..Len(s) : s[i] = 93}
        first == CHOOSE i \in opens : \A j \in opens : i <= j
        last == CHOOSE i \in closes : \A j \in closes : i >= j
    IN  IF opens # {} /\ closes # {} /\ first < last THEN SubSeq(s, first, last) ELSE s

RECURSIVE SplitAt(_, _, _, _)
\* s.split(sep) for a one-character sep
SplitAt(s, sep, part, parts) ==
    IF s = <<>> THEN Append(parts, part)
    ELSE IF s[1] = sep THEN SplitAt(Tail(s), sep, <<>>, Append(parts, part))
    ELSE SplitAt(Tail(s), sep, Append(part, s[1]), parts)

IsJsonNumber(s) == s # <<>> /\ \A i \in 1..Len(s) : IsDigit(s[i])

\* The elements of the text of a list of numbers, as texts.
JsonListParts(s) ==
    IF Len(s) = 2 THEN <<>> ELSE SplitAt(SubSeq(s, 2, Len(s) - 1), 44, <<>>, <<>>)

IsJsonList(s) ==
    /\ Len(s) >= 2 /\ s[1] = 91 /\ s[Len(s)] = 93
    /\ \A k \in 1..Len(JsonListParts(s)) : IsJsonNumber(JsonListParts(s)[k])

\* '{"k":'
ObjectOpen == <<123, 34, 107, 34, 58>>

IsJsonObject(s) ==
    /\ StartsWith(s, ObjectOpen) /\ Len(s) > Len(ObjectOpen) /\ s[Len(s)] = 125
    /\ LET inner == SubSeq(s, Len(ObjectOpen) + 1, Len(s) - 1)
       IN  IsJsonNumber(inner) \/ IsJsonList(inner)

\* json.loads(s) over the JSON texts met here: a number, a list of numbers,
\* an object with the one key "k", all written without spaces; any other
\* text raises JSONDecodeError.
JsonLoads(s) ==
    CASE IsJsonNumber(s) -> [kind |-> "number", items |-> <<>>]
      [] IsJsonList(s) ->
            [kind |-> "list",
             items |-> [k \in 1..Len(JsonListParts(s)) |-> DigitsValue(JsonListParts(s)[k])]]
      [] IsJsonObject(s) -> [kind |-> "object", items |-> <<>>]
      [] OTHER -> [kind |-> "error", items |-> <<>>]

\* The outcome of self.model.generate_content(prompt): it raises, or gives
\* a text.
CallRaises == [raises |-> TRUE, text |-> <<>>]

CallText(text) == [raises |-> FALSE, text |-> text]

\* The try block of one attempt (383-400): the value parsed, of kind "list"
\* or not, or "error" for an exception of the call or of json.loads.
ParseAttempt(reply) ==
    IF reply.raises THEN [kind |-> "error", items |-> <<>>]
    ELSE JsonLoads(ExtractList(CleanResponse(reply.text)))

\* Every attempt is taken for the last.
LastAttemptAlways(attempt, max_retries) == TRUE

\* attempt < max_retries - 1 is false
LastAttempt(attempt, max_retries) == ~(attempt < max_retries - 1)

\* No call of _get_llm_response made yet.
NoLlmRun ==
    [pc |-> "idle", max_retries |-> 0, attempt |-> 0, replies |-> <<>>, sleeps |-> 0,
     value |-> [kind |-> "error", items |-> <<>>]]

\* ---------------------------------------------------------------- workers

RetPending == [kind |-> "pending", id |-> 0]

RetNone == [kind |-> "none", id |-> 0]

RetRaised == [kind |-> "raised", id |-> 0]

RetId(i) == [kind |-> "id", id |-> i]

RetPromotedNoId(i) == [kind |-> "promoted", id |-> 0]

\* {'id': semantic_id, 'content': insight, 'confidence': confidence}; the
\* content and confidence are the call's insight and confidence. id 0 is None.
RetPromoted(i) == [kind |-> "promoted", id |-> i]

IdleProc ==
    [pc |-> "idle", op |-> "none", memory |-> NoMemory,
     session_id |-> "", user_id |-> "", memory_type |-> "",
     embedding |-> ZeroVec, embedded |-> FALSE, embed_failure |-> "none",
     store_failure |-> "none", llm_failure |-> "none",
     existing |-> NoGlobal, ret |-> RetPending, wrote |-> "none",
     pattern_hash |-> Md5Hex16(<<>>), tracker |-> NoTracker, occurrences |-> <<>>,
     insight |-> PyNone, insight_given |-> FALSE, confidence |-> 0,
     semantic_id |-> 0,
     pre_global |-> <<>>, pre_session |-> <<>>, pre_tracker |-> <<>>]

\* A store call of this call raised / answered with empty data.
StoreRaised(p) == [p EXCEPT !.store_failure = "raise"]

StoreNoData(p) == [p EXCEPT !.store_failure = "no_data"]

\* The call has returned (or raised) with ret.
Finish(p, ret) == [p EXCEPT !.pc = "done", !.ret = ret]

\* The candidates a call may be given: well-formed ones of each tier, and
\* dicts with a missing or null field.
Candidate(content, confidence, worth_saving) ==
    [content |-> content, confidence |-> confidence, worth_saving |-> worth_saving]

Candidates ==
    { Candidate(PyStr(TxtA), PyNum(750), PyBool(TRUE)),
      Candidate(PyStr(TxtA2), PyNum(600), PyBool(TRUE)),
      Candidate(PyStr(TxtC), PyNum(950), PyAbsent),
      Candidate(PyStr(TxtA), PyNum(500), PyBool(TRUE)),
      Candidate(PyStr(TxtA), PyAbsent, PyBool(TRUE)),
      Candidate(PyStr(TxtA), PyNum(300), PyBool(TRUE)),
      Candidate(PyStr(TxtA), PyNum(750), PyBool(FALSE)),
      Candidate(PyStr(TxtA), PyNone, PyBool(TRUE)),
      Candidate(PyNone, PyNum(750), PyBool(FALSE)),
      Candidate(PyStr(TxtBlank), PyNum(750), PyBool(TRUE)) }

\* The calls made: every candidate for one session, user and type, and two
\* candidates of the global tier for each other session, user and type.
CallArgs(memory, session_id, user_id, memory_type) ==
    [memory |-> memory, session_id |-> session_id, user_id |-> user_id,
     memory_type |-> memory_type]

RouteInputs ==
    {CallArgs(c, "S1", "U1", "procedural") : c \in Candidates}
    \cup {CallArgs(c, "S2", "U1", "procedural") : c \in
             {Candidate(PyStr(TxtA), PyNum(750), PyBool(TRUE)),
              Candidate(PyStr(TxtA2), PyNum(600), PyBool(TRUE)),
              Candidate(PyStr(TxtA), PyNum(500), PyBool(TRUE))}}
    \cup {CallArgs(Candidate(PyStr(TxtA), PyNum(750), PyBool(TRUE)), "S1", "U2", "procedural"),
          CallArgs(Candidate(PyStr(TxtA2), PyNum(600), PyBool(TRUE)), "S1", "U1", "semantic")}

\* process_and_save_memory up to and including embed_text
RouteCall(w, memory, session_id, user_id, memory_type) ==
    /\ proc[w].pc \in {"idle", "done"}
    /\ calls < MaxCalls
    /\ calls' = calls + 1
    /\ LET call == [IdleProc EXCEPT
                      !.op = "route", !.memory = memory,
                      !.session_id = session_id, !.user_id = user_id,
                      !.memory_type = memory_type,
                      !.pre_global = global_memories,
                      !.pre_session = session_memories,
                      !.pre_tracker = episodic_tracker]
           entry == RouteEntry(memory)
       IN  IF entry = "discard"
           THEN /\ proc' = [proc EXCEPT ![w] = Finish(call, RetNone)]
                /\ UNCHANGED <<model_loaded, faults>>
           ELSE IF entry = "raise"
           THEN /\ proc' = [proc EXCEPT ![w] = Finish(call, RetRaised)]
                /\ UNCHANGED <<model_loaded, faults>>
           ELSE \E e \in EmbedOutcomes(MemoryContent(memory), model_loaded,
                                       faults < MaxFaults) :
                /\ model_loaded' = (model_loaded \/ e.loaded)
                /\ faults' = faults + (IF e.failure = "none" THEN 0 ELSE 1)
                /\ LET c == [call EXCEPT !.embedded = TRUE,
                                         !.embed_failure = e.failure,
                                         !.embedding = e.vec]
                   IN proc' = [proc EXCEPT ![w] =
                        IF e.raised THEN Finish(c, RetNone)
                        ELSE [c EXCEPT !.pc =
                                IF Tier(NumberOf(MemoryConfidence(memory))) = "global"
                                THEN "find_similar" ELSE "insert_session"]]
    /\ UNCHANGED <<memories, retrieved, hash_run>>
    /\ UNCHANGED unit_vars
    /\ UNCHANGED <<global_memories, session_memories, episodic_tracker>>

\* _save_global_memory: the similarity RPC, and the choice between merge and insert
FindSimilarStep(w) ==
    /\ proc[w].pc = "find_similar"
    /\ \/ /\ faults < MaxFaults
          /\ faults' = faults + 1
          /\ proc' = [proc EXCEPT ![w] = Finish(StoreRaised(@), RetNone)]
       \/ /\ UNCHANGED faults
          /\ LET similar == FindSimilar(global_memories, proc[w].embedding,
                                        proc[w].user_id, proc[w].memory_type,
                                        SIMILARITY_THRESHOLD)
             IN  IF similar = {}
                 THEN proc' = [proc EXCEPT ![w].pc = "insert_global"]
                 ELSE \E m \in FirstOfSimilar(similar) :
                        proc' = [proc EXCEPT ![w].pc = "update_global",
                                             ![w].existing = m.row]
    /\ UNCHANGED <<memories, retrieved, hash_run>>
    /\ UNCHANGED unit_vars
    /\ UNCHANGED <<global_memories, session_memories, episodic_tracker,
                   model_loaded, calls>>

\* _save_global_memory: the update of the merged row, return existing['id']
UpdateGlobal(w) ==
    /\ proc[w].pc = "update_global"
    /\ \/ /\ faults < MaxFaults
          /\ faults' = faults + 1
          /\ proc' = [proc EXCEPT ![w] = Finish(StoreRaised(@), RetNone)]
          /\ UNCHANGED global_memories
       \/ /\ UNCHANGED faults
          /\ global_memories' =
                [global_memories EXCEPT ![proc[w].existing.id] =
                    MergedRow(@, proc[w].existing, proc[w].session_id)]
          /\ proc' = [proc EXCEPT ![w] =
                Finish([@ EXCEPT !.wrote = "merge"], RetId(proc[w].existing.id))]
    /\ UNCHANGED <<memories, retrieved, hash_run>>
    /\ UNCHANGED unit_vars
    /\ UNCHANGED <<session_memories, episodic_tracker, model_loaded, calls>>

\* _save_global_memory: the insert of a new row; the id comes from result.data
InsertGlobal(w) ==
    /\ proc[w].pc = "insert_global"
    /\ LET id == Len(global_memories) + 1
           row == NewGlobalRow(id, MemoryContent(proc[w].memory), proc[w].embedding,
                               NumberOf(MemoryConfidence(proc[w].memory)),
                               proc[w].memory_type, proc[w].session_id,
                               proc[w].user_id)
       IN  \/ /\ faults < MaxFaults
              /\ faults' = faults + 1
              /\ \/ /\ proc' = [proc EXCEPT ![w] = Finish(StoreRaised(@), RetNone)]
                    /\ UNCHANGED global_memories
                 \/ /\ global_memories' = Append(global_memories, row)
                    /\ proc' = [proc EXCEPT ![w] =
                          Finish(StoreNoData([@ EXCEPT !.wrote = "global"]), RetNone)]
           \/ /\ UNCHANGED faults
              /\ global_memories' = Append(global_memories, row)
              /\ proc' = [proc EXCEPT ![w] =
                    Finish([@ EXCEPT !.wrote = "global"], RetId(id))]
    /\ UNCHANGED <<memories, retrieved, hash_run>>
    /\ UNCHANGED unit_vars
    /\ UNCHANGED <<session_memories, episodic_tracker, model_loaded, calls>>

\* _save_session_memory
InsertSession(w) ==
    /\ proc[w].pc = "insert_session"
    /\ LET id == Len(session_memories) + 1
           row == NewSessionRow(id, MemoryContent(proc[w].memory),
                                NumberOf(MemoryConfidence(proc[w].memory)),
                                proc[w].memory_type, proc[w].session_id,
                                proc[w].user_id)
       IN  \/ /\ faults < MaxFaults
              /\ faults' = faults + 1
              /\ \/ /\ proc' = [proc EXCEPT ![w] = Finish(StoreRaised(@), RetNone)]
                    /\ UNCHANGED session_memories
                 \/ /\ session_memories' = Append(session_memories, row)
                    /\ proc' = [proc EXCEPT ![w] =
                          Finish(StoreNoData([@ EXCEPT !.wrote = "session"]), RetNone)]
           \/ /\ UNCHANGED faults
              /\ session_memories' = Append(session_memories, row)
              /\ proc' = [proc EXCEPT ![w] =
                    Finish([@ EXCEPT !.wrote = "session"], RetId(id))]
    /\ UNCHANGED <<memories, retrieved, hash_run>>
    /\ UNCHANGED unit_vars
    /\ UNCHANGED <<global_memories, episodic_tracker, model_loaded, calls>>

\* The episodic memories tracked: two wordings of one pattern, another
\* pattern, and a dict whose content is null.
TrackInputs ==
    { CallArgs(Candidate(PyStr(EpiA), PyNum(700), PyBool(TRUE)), "S1", "U1", "episodic"),
      CallArgs(Candidate(PyStr(EpiA2), PyNum(700), PyBool(TRUE)), "S2", "U1", "episodic"),
      CallArgs(Candidate(PyStr(EpiB), PyNum(700), PyBool(TRUE)), "S1", "U1", "episodic"),
      CallArgs(Candidate(PyStr(EpiA), PyNum(700), PyBool(TRUE)), "S1", "U2", "episodic"),
      CallArgs(Candidate(PyNone, PyNum(700), PyBool(TRUE)), "S1", "U1", "episodic") }

\* track_and_promote: compute_pattern_hash and the tracker query.
\* None.lower() raises inside the try block; maybe_single raises when more
\* than one row answers.
TrackCall(w, episodic, session_id, user_id) ==
    /\ proc[w].pc \in {"idle", "done"}
    /\ calls < MaxCalls
    /\ calls' = calls + 1
    /\ LET call == [IdleProc EXCEPT
                      !.op = "track", !.memory = episodic,
                      !.session_id = session_id, !.user_id = user_id,
                      !.memory_type = "episodic",
                      !.pre_global = global_memories,
                      !.pre_session = session_memories,
                      !.pre_tracker = episodic_tracker]
           content == MemoryContent(episodic)
       IN  IF content.kind # "str"
           THEN /\ proc' = [proc EXCEPT ![w] = Finish(call, RetNone)]
                /\ UNCHANGED faults
           ELSE LET pattern_hash == ComputePatternHash(content.s)
                    rows == TrackerRows(episodic_tracker, user_id, pattern_hash)
                    c == [call EXCEPT !.pattern_hash = pattern_hash]
                IN  \/ /\ faults < MaxFaults
                       /\ faults' = faults + 1
                       /\ proc' = [proc EXCEPT ![w] = Finish(StoreRaised(c), RetNone)]
                    \/ /\ UNCHANGED faults
                       /\ IF rows = {}
                          THEN proc' = [proc EXCEPT ![w] = [c EXCEPT !.pc = "insert_tracker"]]
                          ELSE IF Cardinality(rows) > 1
                          THEN proc' = [proc EXCEPT ![w] = Finish(StoreRaised(c), RetNone)]
                          ELSE \E existing \in rows :
                                 proc' = [proc EXCEPT ![w] =
                                    [c EXCEPT !.pc = "update_tracker",
                                              !.tracker = existing]]
    /\ UNCHANGED <<memories, retrieved, hash_run>>
    /\ UNCHANGED unit_vars
    /\ UNCHANGED <<global_memories, session_memories, episodic_tracker, model_loaded>>

\* track_and_promote: the tracker update for a known pattern, and the
\* decision to promote
UpdateTracker(w) ==
    /\ proc[w].pc = "update_tracker"
    /\ LET existing == proc[w].tracker
           occurrences == Append(existing.occurrences,
                                 Occurrence(MemoryContent(proc[w].memory),
                                            proc[w].session_id))
           new_count == existing.occurrence_count + 1
       IN  \/ /\ faults < MaxFaults
              /\ faults' = faults + 1
              /\ proc' = [proc EXCEPT ![w] = Finish(StoreRaised(@), RetNone)]
              /\ UNCHANGED episodic_tracker
           \/ /\ UNCHANGED faults
              /\ episodic_tracker' =
                    [episodic_tracker EXCEPT ![existing.id] =
                        [@ EXCEPT !.occurrences = occurrences,
                                  !.occurrence_count = new_count]]
              /\ proc' = [proc EXCEPT ![w] =
                    IF ShouldPromote(new_count, existing)
                    THEN [@ EXCEPT !.pc = "promote", !.occurrences = occurrences,
                                   !.wrote = "tracker"]
                    ELSE Finish([@ EXCEPT !.wrote = "tracker"], RetNone)]
    /\ UNCHANGED <<memories, retrieved, hash_run>>
    /\ UNCHANGED unit_vars
    /\ UNCHANGED <<global_memories, session_memories, model_loaded, calls>>

\* track_and_promote: the tracker insert for a new pattern
InsertTracker(w) ==
    /\ proc[w].pc = "insert_tracker"
    /\ \/ /\ faults < MaxFaults
          /\ faults' = faults + 1
          /\ proc' = [proc EXCEPT ![w] = Finish(StoreRaised(@), RetNone)]
          /\ UNCHANGED episodic_tracker
       \/ /\ UNCHANGED faults
          /\ episodic_tracker' = Append(episodic_tracker,
                NewTrackerRow(Len(episodic_tracker) + 1, proc[w].user_id,
                              proc[w].pattern_hash, MemoryContent(proc[w].memory),
                              proc[w].session_id))
          /\ proc' = [proc EXCEPT ![w] = Finish([@ EXCEPT !.wrote = "tracker"], RetNone)]
    /\ UNCHANGED <<memories, retrieved, hash_run>>
    /\ UNCHANGED unit_vars
    /\ UNCHANGED <<global_memories, session_memories, model_loaded, calls>>

\* _promote_to_semantic: the LLM call, the parse of its reply and embed_text
PromoteGenerate(w) ==
    /\ proc[w].pc = "promote"
    /\ \/ /\ faults < MaxFaults
          /\ faults' = faults + 1
          /\ proc' = [proc EXCEPT ![w] = Finish([@ EXCEPT !.llm_failure = "raise"], RetNone)]
          /\ UNCHANGED model_loaded
       \/ \E reply \in LLMReplies :
            LET parsed == ParseReply(reply)
            IN  IF parsed.raised
                THEN /\ proc' = [proc EXCEPT ![w] =
                            Finish([@ EXCEPT !.llm_failure = "parse"], RetNone)]
                     /\ UNCHANGED <<model_loaded, faults>>
                ELSE \E e \in EmbedOutcomes(parsed.insight, model_loaded,
                                            faults < MaxFaults) :
                     /\ model_loaded' = (model_loaded \/ e.loaded)
                     /\ faults' = faults + (IF e.failure = "none" THEN 0 ELSE 1)
                     /\ LET c == [proc[w] EXCEPT !.embedded = TRUE,
                                                 !.embed_failure = e.failure,
                                                 !.embedding = e.vec,
                                                 !.insight = parsed.insight,
                                                 !.insight_given = (reply.insight.kind # "absent"),
                                                 !.confidence = parsed.confidence]
                        IN proc' = [proc EXCEPT ![w] =
                              IF e.raised THEN Finish(c, RetNone)
                              ELSE [c EXCEPT !.pc = "promote_insert"]]
    /\ UNCHANGED <<memories, retrieved, hash_run>>
    /\ UNCHANGED unit_vars
    /\ UNCHANGED <<global_memories, session_memories, episodic_tracker, calls>>

\* _promote_to_semantic: the insert of the semantic row; semantic_id comes
\* from result.data and is None (0) when the answer holds no row
PromoteInsert(w) ==
    /\ proc[w].pc = "promote_insert"
    /\ LET id == Len(global_memories) + 1
           row == NewPromotedRow(id, proc[w].insight, proc[w].embedding,
                                 proc[w].confidence, proc[w].occurrences,
                                 proc[w].user_id, proc[w].tracker.id)
       IN  \/ /\ faults < MaxFaults
              /\ faults' = faults + 1
              /\ \/ /\ proc' = [proc EXCEPT ![w] = Finish(StoreRaised(@), RetNone)]
                    /\ UNCHANGED global_memories
                 \/ /\ global_memories' = Append(global_memories, row)
                    /\ proc' = [proc EXCEPT ![w] =
                          StoreNoData([@ EXCEPT !.pc = "promote_update",
                                                !.wrote = "promotion",
                                                !.semantic_id = 0])]
           \/ /\ UNCHANGED faults
              /\ global_memories' = Append(global_memories, row)
              /\ proc' = [proc EXCEPT ![w] =
                    [@ EXCEPT !.pc = "promote_update", !.wrote = "promotion",
                              !.semantic_id = id]]
    /\ UNCHANGED <<memories, retrieved, hash_run>>
    /\ UNCHANGED unit_vars
    /\ UNCHANGED <<session_memories, episodic_tracker, model_loaded, calls>>

\* _promote_to_semantic: the tracker update that records the promotion, and
\* the return of the promoted memory
PromoteUpdateTracker(w) ==
    /\ proc[w].pc = "promote_update"
    /\ \/ /\ faults < MaxFaults
          /\ faults' = faults + 1
          /\ proc' = [proc EXCEPT ![w] = Finish(StoreRaised(@), RetNone)]
          /\ UNCHANGED episodic_tracker
       \/ /\ UNCHANGED faults
          /\ episodic_tracker' =
                [episodic_tracker EXCEPT ![proc[w].tracker.id] =
                    [@ EXCEPT !.promoted_to_semantic_id = proc[w].semantic_id]]
          /\ proc' = [proc EXCEPT ![w] = Finish(@, RetPromoted(proc[w].semantic_id))]
    /\ UNCHANGED <<memories, retrieved, hash_run>>
    /\ UNCHANGED unit_vars
    /\ UNCHANGED <<global_memories, session_memories, model_loaded, calls>>

\* The extraction batches saved to the table memories.
BatchInputs ==
    { [user_id |-> "U1", session_id |-> "S1",
       episodic_memories |-> <<PyStr(EpiB), PyStr(EpiA2)>>],
      [user_id |-> "U2", session_id |-> "S2", episodic_memories |-> <<PyStr(EpiB)>>] }

\* The workflow's save of one extraction batch: a row of the table memories
\* holding the batch's episodic memories.
SaveMemories(user_id, session_id, episodic_memories) ==
    /\ Len(memories) < MaxBatches
    /\ memories' = Append(memories,
          MemoriesRow(Len(memories) + 1, user_id, session_id, episodic_memories))
    /\ UNCHANGED <<global_memories, session_memories, episodic_tracker, proc,
                   model_loaded, calls, faults, retrieved, hash_run>>
    /\ UNCHANGED unit_vars

Query(query_embedding, memory_types, confidence_threshold, user_id, session_id, top_k) ==
    [query_embedding |-> query_embedding, memory_types |-> memory_types,
     confidence_threshold |-> confidence_threshold, user_id |-> user_id,
     session_id |-> session_id, top_k |-> top_k]

\* The retrieve_memories calls: the types requested, the confidence floor,
\* the session and top_k each varied.
RetrieveInputs ==
    { Query(Vec(30), {"semantic", "procedural"}, 0, "U1", "S1", 10),
      Query(Vec(30), {"semantic", "procedural", "episodic"}, 0, "U1", "S1", 10),
      Query(Vec(30), {"episodic"}, 0, "U1", "S1", 10),
      Query(Vec(0), {"semantic", "procedural", "episodic"}, 900, "U1", "S1", 1),
      Query(Vec(0), {"procedural", "episodic"}, 0, "U1", "S2", 10) }

\* The store calls of one retrieve_memories call that raise: none, one of
\* the three, or all.
FailureSets ==
    { {}, {"global"}, {"session"}, {"episodic"}, {"global", "session", "episodic"} }

\* retrieve_memories, with the store calls in failed raising
RetrieveMemories(q, failed) ==
    /\ \A w \in Workers : proc[w].pc \in {"idle", "done"}
    /\ retrieved' = [called |-> TRUE, query |-> q, failed |-> failed,
                     result |-> RetrieveResult(q, failed)]
    /\ UNCHANGED <<global_memories, session_memories, episodic_tracker, proc,
                   model_loaded, calls, faults, memories, hash_run>>
    /\ UNCHANGED unit_vars

Init ==
    /\ global_memories = <<>>
    /\ session_memories = <<>>
    /\ episodic_tracker = <<>>
    /\ proc = [w \in Workers |-> IdleProc]
    /\ model_loaded = FALSE
    /\ calls = 0
    /\ faults = 0
    /\ memories = <<>>
    /\ retrieved = NoRetrieval
    /\ hash_run = NoHashRun
    /\ extraction = NoExtraction
    /\ service = NoService
    /\ embed_proc = [t \in Workers |-> IdleCaller]
    /\ llm_run = NoLlmRun

\* One caller, route calls one after the other.
NextRoute ==
    \/ \E a \in RouteInputs :
            RouteCall("w1", a.memory, a.session_id, a.user_id, a.memory_type)
    \/ FindSimilarStep("w1")
    \/ UpdateGlobal("w1")
    \/ InsertGlobal("w1")
    \/ InsertSession("w1")

SpecRoute == Init /\ [][NextRoute]_vars

\* One caller, track_and_promote calls one after the other.
NextPromote ==
    \/ \E a \in TrackInputs : TrackCall("w1", a.memory, a.session_id, a.user_id)
    \/ UpdateTracker("w1")
    \/ InsertTracker("w1")
    \/ PromoteGenerate("w1")
    \/ PromoteInsert("w1")
    \/ PromoteUpdateTracker("w1")

SpecPromote == Init /\ [][NextPromote]_vars

\* The calls made by concurrent callers.
ConcurrentRouteInputs ==
    { CallArgs(Candidate(PyStr(TxtA), PyNum(750), PyBool(TRUE)), "S1", "U1", "procedural"),
      CallArgs(Candidate(PyStr(TxtA2), PyNum(600), PyBool(TRUE)), "S2", "U1", "procedural"),
      CallArgs(Candidate(PyStr(TxtA), PyNum(500), PyBool(TRUE)), "S1", "U1", "procedural") }

ConcurrentTrackInputs ==
    { CallArgs(Candidate(PyStr(EpiA), PyNum(700), PyBool(TRUE)), "S1", "U1", "episodic"),
      CallArgs(Candidate(PyStr(EpiA2), PyNum(700), PyBool(TRUE)), "S2", "U1", "episodic") }

\* Two callers whose calls interleave at the store operations.
Next ==
    \E w \in Workers :
        \/ \E a \in ConcurrentRouteInputs :
              RouteCall(w, a.memory, a.session_id, a.user_id, a.memory_type)
        \/ FindSimilarStep(w)
        \/ UpdateGlobal(w)
        \/ InsertGlobal(w)
        \/ InsertSession(w)
        \/ \E a \in ConcurrentTrackInputs :
              TrackCall(w, a.memory, a.session_id, a.user_id)
        \/ UpdateTracker(w)
        \/ InsertTracker(w)
        \/ PromoteGenerate(w)
        \/ PromoteInsert(w)
        \/ PromoteUpdateTracker(w)

Spec == Init /\ [][Next]_vars

\* The route calls of a caller that also tracks episodic patterns: a semantic
\* memory with the text the promoter's LLM gives as insight, a procedural
\* memory, and a memory for the session tier.
SeqRouteInputs ==
    { CallArgs(Candidate(PyStr(InsightA), PyNum(750), PyBool(TRUE)), "S1", "U1", "semantic"),
      CallArgs(Candidate(PyStr(TxtA), PyNum(750), PyBool(TRUE)), "S1", "U1", "procedural"),
      CallArgs(Candidate(PyStr(TxtA), PyNum(500), PyBool(TRUE)), "S1", "U1", "procedural") }

SeqTrackInputs ==
    { CallArgs(Candidate(PyStr(EpiA), PyNum(700), PyBool(TRUE)), "S1", "U1", "episodic"),
      CallArgs(Candidate(PyStr(EpiA2), PyNum(700), PyBool(TRUE)), "S2", "U1", "episodic") }

\* One caller, route and track_and_promote calls one after the other.
NextSeq ==
    \/ \E a \in SeqRouteInputs :
          RouteCall("w1", a.memory, a.session_id, a.user_id, a.memory_type)
    \/ FindSimilarStep("w1")
    \/ UpdateGlobal("w1")
    \/ InsertGlobal("w1")
    \/ InsertSession("w1")
    \/ \E a \in SeqTrackInputs : TrackCall("w1", a.memory, a.session_id, a.user_id)
    \/ UpdateTracker("w1")
    \/ InsertTracker("w1")
    \/ PromoteGenerate("w1")
    \/ PromoteInsert("w1")
    \/ PromoteUpdateTracker("w1")

SpecSeq == Init /\ [][NextSeq]_vars

\* Two callers whose route calls interleave at the store operations.
NextRace ==
    \E w \in Workers :
        \/ \E a \in ConcurrentRouteInputs :
              RouteCall(w, a.memory, a.session_id, a.user_id, a.memory_type)
        \/ FindSimilarStep(w)
        \/ UpdateGlobal(w)
        \/ InsertGlobal(w)
        \/ InsertSession(w)

SpecRace == Init /\ [][NextRace]_vars

\* The route calls that fill the stores searched by retrieve_memories: a
\* global semantic and a global procedural record, a procedural and an
\* episodic session record.
RetrieveRouteInputs ==
    { CallArgs(Candidate(PyStr(InsightA), PyNum(750), PyBool(TRUE)), "S1", "U1", "semantic"),
      CallArgs(Candidate(PyStr(TxtA), PyNum(950), PyBool(TRUE)), "S1", "U1", "procedural"),
      CallArgs(Candidate(PyStr(TxtA), PyNum(500), PyBool(TRUE)), "S1", "U1", "procedural"),
      CallArgs(Candidate(PyStr(EpiA), PyNum(500), PyBool(TRUE)), "S1", "U1", "episodic") }

\* One caller fills the stores with route calls and saved batches, then
\* retrieves once.
NextRetrieve ==
    \/ \E a \in RetrieveRouteInputs :
          ~retrieved.called
          /\ RouteCall("w1", a.memory, a.session_id, a.user_id, a.memory_type)
    \/ ~retrieved.called /\ FindSimilarStep("w1")
    \/ ~retrieved.called /\ UpdateGlobal("w1")
    \/ ~retrieved.called /\ InsertGlobal("w1")
    \/ ~retrieved.called /\ InsertSession("w1")
    \/ \E b \in BatchInputs :
          ~retrieved.called
          /\ SaveMemories(b.user_id, b.session_id, b.episodic_memories)
    \/ \E q \in RetrieveInputs, failed \in FailureSets :
          ~retrieved.called /\ RetrieveMemories(q, failed)

SpecRetrieve == Init /\ [][NextRetrieve]_vars

\* --------------------------------------------- compute_pattern_hash on its own

\* compute_pattern_hash applied to a content and to a rewording of it: the
\* words at i and i + 1 exchanged
RewordSwap(i) ==
    /\ hash_run.rewords < MaxRewords
    /\ i \in 1..(Len(hash_run.b) - 1)
    /\ LET b == SwapWords(hash_run.b, i)
       IN  hash_run' = [hash_run EXCEPT
              !.b = b, !.rewords = @ + 1,
              !.hash_a = ComputePatternHash(Unwords(hash_run.a)),
              !.hash_b = ComputePatternHash(Unwords(b))]
    /\ UNCHANGED <<global_memories, session_memories, episodic_tracker, proc,
                   model_loaded, calls, faults, memories, retrieved>>
    /\ UNCHANGED unit_vars

\* compute_pattern_hash applied to a content and to a rewording of it: the
\* letter case of word i changed
RewordCase(i) ==
    /\ hash_run.rewords < MaxRewords
    /\ i \in 1..Len(hash_run.b)
    /\ LET b == RecaseWord(hash_run.b, i)
       IN  hash_run' = [hash_run EXCEPT
              !.b = b, !.rewords = @ + 1,
              !.hash_a = ComputePatternHash(Unwords(hash_run.a)),
              !.hash_b = ComputePatternHash(Unwords(b))]
    /\ UNCHANGED <<global_memories, session_memories, episodic_tracker, proc,
                   model_loaded, calls, faults, memories, retrieved>>
    /\ UNCHANGED unit_vars

InitHash ==
    /\ global_memories = <<>>
    /\ session_memories = <<>>
    /\ episodic_tracker = <<>>
    /\ proc = [w \in Workers |-> IdleProc]
    /\ model_loaded = FALSE
    /\ calls = 0
    /\ faults = 0
    /\ memories = <<>>
    /\ retrieved = NoRetrieval
    /\ \E base \in HashBases : hash_run = [NoHashRun EXCEPT !.a = base, !.b = base]
    /\ extraction = NoExtraction
    /\ service = NoService
    /\ embed_proc = [t \in Workers |-> IdleCaller]
    /\ llm_run = NoLlmRun

NextHash ==
    \/ \E i \in 1..Len(hash_run.b) : RewordSwap(i)
    \/ \E i \in 1..Len(hash_run.b) : RewordCase(i)

SpecHash == InitHash /\ [][NextHash]_vars

\* ------------------------------------------------------- unified extraction

\* "0.8"
TxtDecimal == <<48, 46, 56>>

\* "high"
TxtHigh == <<104, 105, 103, 104>>

\* "false"
TxtFalse == <<102, 97, 108, 115, 101>>

WellFormedCandidate == Candidate(PyStr(TxtC), PyNum(800), PyBool(TRUE))

\* The candidates of a reply: each key present or missing, and values of a
\* type other than number and boolean.
ExtractionCandidates ==
    { WellFormedCandidate,
      Candidate(PyStr(TxtA), PyAbsent, PyAbsent),
      Candidate(PyStr(TxtA), PyNum(300), PyAbsent),
      Candidate(PyStr(TxtA), PyAbsent, PyBool(FALSE)),
      Candidate(PyStr(TxtA), PyBool(TRUE), PyAbsent),
      Candidate(PyStr(TxtA), PyStr(TxtDecimal), PyBool(TRUE)),
      Candidate(PyStr(TxtA), PyStr(TxtDecimal), PyAbsent),
      Candidate(PyStr(TxtA), PyStr(TxtHigh), PyBool(TRUE)),
      Candidate(PyStr(TxtA), PyNone, PyBool(TRUE)),
      Candidate(PyStr(TxtA), PyNum(800), PyStr(TxtFalse)),
      Candidate(PyStr(TxtA), PyNum(800), PyNone) }

\* The replies: objects whose semantic list holds one of the candidates,
\* alone or after a well-formed one, with the episodic list present or not;
\* and the replies that are no such object.
UnifiedReplies ==
    { UnifiedReply(form, TRUE, PyStr(InsightA), TRUE,
                   [semantic |-> MemList(prefix \o <<c>>),
                    procedural |-> MemList(<<WellFormedCandidate>>),
                    episodic |-> episodic]) :
        form \in {"json", "fenced"}, c \in ExtractionCandidates,
        prefix \in {<<>>, <<WellFormedCandidate>>},
        episodic \in {NoMemList, MemList(<<Candidate(PyStr(EpiA), PyAbsent, PyAbsent)>>)} }
    \cup { UnifiedReply(form, FALSE, PyAbsent, FALSE, [t \in ExtractionTypes |-> NoMemList]) :
             form \in {"not_json", "empty", "json"} }
    \cup { UnifiedReply("json", TRUE, PyStr(InsightA), FALSE, [t \in ExtractionTypes |-> NoMemList]),
           UnifiedReply("json", TRUE, PyAbsent, TRUE,
                        [t \in ExtractionTypes |-> MemList(<<WellFormedCandidate>>)]) }

\* _parse_unified_extraction called on a reply
ParseUnifiedExtractionCall(content) ==
    /\ extraction' = [op |-> "parse", messages |-> <<>>, session_id |-> PyNone,
                      llm |-> LLMText(content), raised |-> FALSE,
                      result |-> ParseUnifiedExtraction(content)]
    /\ UNCHANGED <<store_vars, service, embed_proc, llm_run>>

\* The arguments of extract_all_with_summary_unified: the contents of the
\* messages (one with the key missing) and the session id, a string or None.
ExtractionMessages ==
    { <<PyStr(EpiA), PyStr(TxtA)>>, <<PyStr(EpiA), PyAbsent>> }

ExtractionSessionIds == {PyStr(<<83, 49>>), PyNone}

LLMOutcomes == {LLMRaises} \cup {LLMText(content) : content \in UnifiedReplies}

\* extract_all_with_summary_unified, the whole call
ExtractCall(messages, session_id, llm) ==
    /\ LET out == ExtractAllWithSummaryUnified(messages, session_id, llm)
       IN  extraction' = [op |-> "extract", messages |-> messages,
                          session_id |-> session_id, llm |-> llm,
                          raised |-> out.raised, result |-> out.result]
    /\ UNCHANGED <<store_vars, service, embed_proc, llm_run>>

NextExtract ==
    \/ \E content \in UnifiedReplies : ParseUnifiedExtractionCall(content)
    \/ \E messages \in ExtractionMessages, session_id \in ExtractionSessionIds,
          llm \in LLMOutcomes : ExtractCall(messages, session_id, llm)

SpecExtract == Init /\ [][NextExtract]_vars

\* ------------------------------------------------------- EmbeddingService

\* The texts given to embed_text: a text, the empty and a blank string,
\* None and a number.
EmbedTexts == {PyStr(TxtA), PyStr(<<>>), PyStr(TxtBlank), PyNone, PyNum(5)}

\* What the steps of the service leave alone.
EmbedFrame == UNCHANGED <<global_memories, session_memories, episodic_tracker, proc,
                          memories, retrieved, hash_run, extraction, llm_run>>

\* A caller starts EmbeddingService().embed_text(text)
EmbedStart(t, text) ==
    /\ embed_proc[t].pc \in {"idle", "done"}
    /\ calls < MaxCalls
    /\ calls' = calls + 1
    /\ embed_proc' = [embed_proc EXCEPT ![t] = [IdleCaller EXCEPT !.pc = "new_check", !.text = text]]
    /\ UNCHANGED <<service, model_loaded, faults>>
    /\ EmbedFrame

\* __new__: if cls._instance is None
NewCheck(t) ==
    /\ embed_proc[t].pc = "new_check"
    /\ embed_proc' = [embed_proc EXCEPT ![t].pc =
                        IF service.instance = 0 THEN "new_lock" ELSE "new_return"]
    /\ UNCHANGED <<service, model_loaded, calls, faults>>
    /\ EmbedFrame

\* __new__: with cls._lock
NewLock(t) ==
    /\ embed_proc[t].pc = "new_lock"
    /\ service.lock = "none"
    /\ service' = [service EXCEPT !.lock = t]
    /\ embed_proc' = [embed_proc EXCEPT ![t].pc = "new_create"]
    /\ UNCHANGED <<model_loaded, calls, faults>>
    /\ EmbedFrame

\* __new__: the second test of cls._instance, the creation of the instance
\* and the release of the lock
NewCreate(t) ==
    /\ embed_proc[t].pc = "new_create"
    /\ service' = IF service.instance = 0
                  THEN [service EXCEPT !.instance = service.created + 1,
                                       !.created = @ + 1, !.lock = "none"]
                  ELSE [service EXCEPT !.lock = "none"]
    /\ embed_proc' = [embed_proc EXCEPT ![t].pc = "new_return"]
    /\ UNCHANGED <<model_loaded, calls, faults>>
    /\ EmbedFrame

\* __new__: return cls._instance
NewReturn(t) ==
    /\ embed_proc[t].pc = "new_return"
    /\ embed_proc' = [embed_proc EXCEPT ![t].pc = "embed_check", ![t].self = service.instance]
    /\ UNCHANGED <<service, model_loaded, calls, faults>>
    /\ EmbedFrame

\* embed_text: if not self._model_loaded: self._load_model()
EmbedCheck(t) ==
    /\ embed_proc[t].pc = "embed_check"
    /\ embed_proc' = [embed_proc EXCEPT ![t].pc =
                        IF ~model_loaded THEN "load_check" ELSE "text_check"]
    /\ UNCHANGED <<service, model_loaded, calls, faults>>
    /\ EmbedFrame

\* _load_model: if self._model_loaded: return
LoadCheck(t) ==
    /\ embed_proc[t].pc = "load_check"
    /\ embed_proc' = [embed_proc EXCEPT ![t].pc =
                        IF model_loaded THEN "text_check" ELSE "load_lock"]
    /\ UNCHANGED <<service, model_loaded, calls, faults>>
    /\ EmbedFrame

\* _load_model: with self._lock
LoadLock(t) ==
    /\ embed_proc[t].pc = "load_lock"
    /\ service.lock = "none"
    /\ service' = [service EXCEPT !.lock = t]
    /\ embed_proc' = [embed_proc EXCEPT ![t].pc = "load_recheck"]
    /\ UNCHANGED <<model_loaded, calls, faults>>
    /\ EmbedFrame

\* _load_model: the second test of self._model_loaded, inside the lock
LoadRecheck(t) ==
    /\ embed_proc[t].pc = "load_recheck"
    /\ IF LoadedUnderLock(model_loaded)
       THEN /\ service' = [service EXCEPT !.lock = "none"]
            /\ embed_proc' = [embed_proc EXCEPT ![t].pc = "text_check"]
       ELSE /\ embed_proc' = [embed_proc EXCEPT ![t].pc = "load_try"]
            /\ UNCHANGED service
    /\ UNCHANGED <<model_loaded, calls, faults>>
    /\ EmbedFrame

\* _load_model: self._model = SentenceTransformer(...), or the import or the
\* constructor raising: the exception leaves the with block, which releases
\* the lock, and embed_text
LoadModel(t) ==
    /\ embed_proc[t].pc = "load_try"
    /\ \/ /\ service' = [service EXCEPT !.model = TRUE]
          /\ embed_proc' = [embed_proc EXCEPT ![t].pc = "load_set", ![t].load_tried = TRUE]
          /\ UNCHANGED faults
       \/ /\ faults < MaxFaults
          /\ faults' = faults + 1
          /\ service' = [service EXCEPT !.lock = "none"]
          /\ embed_proc' = [embed_proc EXCEPT ![t].pc = "done", ![t].raised = TRUE,
                                              ![t].failure = "load", ![t].load_tried = TRUE]
    /\ UNCHANGED <<model_loaded, calls>>
    /\ EmbedFrame

\* _load_model: self._model_loaded = True, and the release of the lock
LoadSet(t) ==
    /\ embed_proc[t].pc = "load_set"
    /\ model_loaded' = TRUE
    /\ service' = [service EXCEPT !.loads = @ + 1, !.lock = "none"]
    /\ embed_proc' = [embed_proc EXCEPT ![t].pc = "text_check"]
    /\ UNCHANGED <<calls, faults>>
    /\ EmbedFrame

\* embed_text: the zero vector for a text that is empty or blank; text.strip()
\* raises AttributeError on a value that is no string
TextCheck(t) ==
    /\ embed_proc[t].pc = "text_check"
    /\ embed_proc' = [embed_proc EXCEPT ![t] =
          IF EmptyText(embed_proc[t].text) THEN [@ EXCEPT !.pc = "done", !.vec = ZeroVec]
          ELSE IF embed_proc[t].text.kind # "str" THEN [@ EXCEPT !.pc = "done", !.raised = TRUE]
          ELSE [@ EXCEPT !.pc = "encode"]]
    /\ UNCHANGED <<service, model_loaded, calls, faults>>
    /\ EmbedFrame

\* embed_text: self._model.encode(...) inside the try; an exception, the
\* AttributeError of a None model included, gives the zero vector
Encode(t) ==
    /\ embed_proc[t].pc = "encode"
    /\ \/ /\ embed_proc' = [embed_proc EXCEPT ![t] =
                IF service.model
                THEN [@ EXCEPT !.pc = "done", !.vec = EmbeddingOf(embed_proc[t].text.s)]
                ELSE [@ EXCEPT !.pc = "done", !.vec = ZeroVec, !.failure = "no_model"]]
          /\ UNCHANGED faults
       \/ /\ faults < MaxFaults
          /\ faults' = faults + 1
          /\ embed_proc' = [embed_proc EXCEPT ![t] =
                [@ EXCEPT !.pc = "done", !.vec = ZeroVec, !.failure = "encode"]]
    /\ UNCHANGED <<service, model_loaded, calls>>
    /\ EmbedFrame

\* The callers construct the service and embed a text, in any interleaving.
NextEmbed ==
    \/ \E t \in Workers, text \in EmbedTexts : EmbedStart(t, text)
    \/ \E t \in Workers : NewCheck(t)
    \/ \E t \in Workers : NewLock(t)
    \/ \E t \in Workers : NewCreate(t)
    \/ \E t \in Workers : NewReturn(t)
    \/ \E t \in Workers : EmbedCheck(t)
    \/ \E t \in Workers : LoadCheck(t)
    \/ \E t \in Workers : LoadLock(t)
    \/ \E t \in Workers : LoadRecheck(t)
    \/ \E t \in Workers : LoadModel(t)
    \/ \E t \in Workers : LoadSet(t)
    \/ \E t \in Workers : TextCheck(t)
    \/ \E t \in Workers : Encode(t)

SpecEmbed == Init /\ [][NextEmbed]_vars

\* --------------------------------------------------------- _get_llm_response

\* The replies of the LLM to one attempt: the call raising, and the texts
\*   [1,2]   []   ```json\n[1]\n```   see [1] ok   {"k":[1]}   {"k":1}   7
\*   none   [1] or [2]   [1,2
LlmReplies ==
    { CallRaises,
      CallText(<<91, 49, 44, 50, 93>>),
      CallText(<<91, 93>>),
      CallText(FenceJson \o <<10, 91, 49, 93, 10>> \o Fence),
      CallText(<<115, 101, 101, 32, 91, 49, 93, 32, 111, 107>>),
      CallText(ObjectOpen \o <<91, 49, 93, 125>>),
      CallText(ObjectOpen \o <<49, 125>>),
      CallText(<<55>>),
      CallText(<<110, 111, 110, 101>>),
      CallText(<<91, 49, 93, 32, 111, 114, 32, 91, 50, 93>>),
      CallText(<<91, 49, 44, 50>>) }

\* What the steps of _get_llm_response leave alone.
LlmFrame == UNCHANGED <<store_vars, extraction, service, embed_proc>>

\* _get_llm_response(prompt, max_retries) is called
LlmStart(max_retries) ==
    /\ llm_run.pc = "idle"
    /\ llm_run' = [NoLlmRun EXCEPT !.pc = "running", !.max_retries = max_retries]
    /\ LlmFrame

\* One pass of the loop: the call, the parse, then the return of a list, the
\* sleep before the next attempt, or the raise after the last one.
LlmAttempt(reply) ==
    /\ llm_run.pc = "running"
    /\ llm_run.attempt < llm_run.max_retries
    /\ LET parsed == ParseAttempt(reply)
           run == [llm_run EXCEPT !.replies = Append(@, reply)]
       IN  llm_run' =
              IF parsed.kind = "list" THEN [run EXCEPT !.pc = "returned", !.value = parsed]
              ELSE IF LastAttempt(llm_run.attempt, llm_run.max_retries)
              THEN [run EXCEPT !.pc = "raised"]
              ELSE [run EXCEPT !.sleeps = @ + 1, !.attempt = @ + 1]
    /\ LlmFrame

\* The loop ends without a return or a raise: the raise at line 429
LlmExhausted ==
    /\ llm_run.pc = "running"
    /\ llm_run.attempt >= llm_run.max_retries
    /\ llm_run' = [llm_run EXCEPT !.pc = "raised"]
    /\ LlmFrame

NextLlm ==
    \/ \E max_retries \in 0..DEFAULT_MAX_RETRIES : LlmStart(max_retries)
    \/ \E reply \in LlmReplies : LlmAttempt(reply)
    \/ LlmExhausted

\* Every LLM call returns or raises, and the loop goes on to its next pass.
SpecLlm == Init /\ [][NextLlm]_vars /\ WF_vars(NextLlm)

\* ----------------------------------------------- interleaved track_and_promote

\* The store after track_and_promote({'content': 'felt Anxious today'}, 'S1',
\* 'U1') on an empty store: the tracker of the pattern with one occurrence.
InitTracked ==
    /\ global_memories = <<>>
    /\ session_memories = <<>>
    /\ episodic_tracker =
          <<NewTrackerRow(1, "U1", ComputePatternHash(EpiA), PyStr(EpiA), "S1")>>
    /\ proc = [w \in Workers |-> IdleProc]
    /\ model_loaded = FALSE
    /\ calls = 0
    /\ faults = 0
    /\ memories = <<>>
    /\ retrieved = NoRetrieval
    /\ hash_run = NoHashRun
    /\ extraction = NoExtraction
    /\ service = NoService
    /\ embed_proc = [t \in Workers |-> IdleCaller]
    /\ llm_run = NoLlmRun

\* The track_and_promote calls of the two callers: the tracked pattern again,
\* in another wording, and another pattern.
RaceTrackInputs ==
    { CallArgs(Candidate(PyStr(EpiA2), PyNum(700), PyBool(TRUE)), "S2", "U1", "episodic"),
      CallArgs(Candidate(PyStr(EpiB), PyNum(700), PyBool(TRUE)), "S1", "U1", "episodic") }

\* Two callers of track_and_promote whose calls interleave at the store
\* operations.
NextTrackRace ==
    \E w \in Workers :
        \/ \E a \in RaceTrackInputs : TrackCall(w, a.memory, a.session_id, a.user_id)
        \/ UpdateTracker(w)
        \/ InsertTracker(w)
        \/ PromoteGenerate(w)
        \/ PromoteInsert(w)
        \/ PromoteUpdateTracker(w)

SpecTrackRace == InitTracked /\ [][NextTrackRace]_vars

\* ------------------------------------------- retrieval over two users' records

\* The route calls of two users under one session id: a session-tier and a
\* global-tier candidate each.
IsolateRouteInputs ==
    { CallArgs(Candidate(PyStr(TxtA), PyNum(500), PyBool(TRUE)), "S1", "U1", "procedural"),
      CallArgs(Candidate(PyStr(TxtC), PyNum(500), PyBool(TRUE)), "S1", "U2", "procedural"),
      CallArgs(Candidate(PyStr(InsightA), PyNum(750), PyBool(TRUE)), "S1", "U1", "semantic"),
      CallArgs(Candidate(PyStr(InsightA), PyNum(750), PyBool(TRUE)), "S1", "U2", "semantic") }

\* The extraction batches of the two users, saved under the same session id.
IsolateBatchInputs ==
    { [user_id |-> "U1", session_id |-> "S1", episodic_memories |-> <<PyStr(EpiB)>>],
      [user_id |-> "U2", session_id |-> "S1", episodic_memories |-> <<PyStr(EpiA2)>>] }

\* The retrievals of user U1 for the session.
IsolateRetrieveInputs ==
    { Query(Vec(30), {"semantic", "procedural", "episodic"}, 0, "U1", "S1", 10),
      Query(Vec(30), {"semantic", "procedural"}, 0, "U1", "S1", 10) }

\* Two users fill the stores, then one of them retrieves once.
NextIsolate ==
    \/ \E a \in IsolateRouteInputs :
          ~retrieved.called
          /\ RouteCall("w1", a.memory, a.session_id, a.user_id, a.memory_type)
    \/ ~retrieved.called /\ FindSimilarStep("w1")
    \/ ~retrieved.called /\ UpdateGlobal("w1")
    \/ ~retrieved.called /\ InsertGlobal("w1")
    \/ ~retrieved.called /\ InsertSession("w1")
    \/ \E b \in IsolateBatchInputs :
          ~retrieved.called
          /\ SaveMemories(b.user_id, b.session_id, b.episodic_memories)
    \/ \E q \in IsolateRetrieveInputs, failed \in FailureSets :
          ~retrieved.called /\ RetrieveMemories(q, failed)

SpecIsolate == Init /\ [][NextIsolate]_vars

\* ------------------------------------------------- properties of the router

RouteDone(w) == proc[w].pc = "done" /\ proc[w].op = "route"

WorthSavingOf(memory) == Truthy(DictGet(memory.worth_saving, PyBool(TRUE)))

HasNumericConfidence(memory) == MemoryConfidence(memory).kind = "num"

ConfidenceOf(memory) == MemoryConfidence(memory).n

HasTextContent(memory) == MemoryContent(memory).kind = "str"

\* The candidate is discarded by the policy: worth_saving = false, or a
\* numeric confidence below 0.4.
Discardable(memory) ==
    \/ memory.worth_saving = PyBool(FALSE)
    \/ (HasNumericConfidence(memory) /\ ConfidenceOf(memory) < 400)

\* The rows of rows that belong to the user and type and are similar (>= 0.85)
\* to the embedding.
SimilarRows(rows, embedding, user_id, memory_type) ==
    {i \in 1..Len(rows) :
        /\ rows[i].user_id = user_id
        /\ rows[i].memory_type = memory_type
        /\ Similarity(embedding, rows[i].embedding) >= 850}

\* No collaborator failed during the call.
FailureFree(w) == proc[w].embed_failure = "none" /\ proc[w].store_failure = "none"

\* C1: a route call for a candidate (content a text) with worth_saving = false
\* or confidence < 0.4 returns null, computes no embedding and leaves the
\* global and session records as they were.
C1_DiscardWritesNothing ==
    \A w \in Workers :
        (RouteDone(w) /\ HasTextContent(proc[w].memory) /\ Discardable(proc[w].memory))
        => /\ proc[w].ret = RetNone
           /\ ~proc[w].embedded
           /\ global_memories = proc[w].pre_global
           /\ session_memories = proc[w].pre_session

\* A low-confidence candidate was discarded while records were in both stores.
C1_Witness ==
    \E w \in Workers :
        /\ RouteDone(w) /\ HasTextContent(proc[w].memory)
        /\ WorthSavingOf(proc[w].memory)
        /\ HasNumericConfidence(proc[w].memory) /\ ConfidenceOf(proc[w].memory) < 400
        /\ Len(global_memories) > 0 /\ Len(session_memories) > 0

\* C2: a route call for a candidate with worth_saving true and
\* 0.4 <= confidence < 0.6, whose embedding and store calls do not fail,
\* appends exactly one session record carrying the call's session_id, user_id,
\* memory_type, content and confidence, whatever the session records already
\* hold, and leaves the global records as they were.
C2_SessionTierInsertsOne ==
    \A w \in Workers :
        (/\ RouteDone(w) /\ WorthSavingOf(proc[w].memory)
         /\ HasNumericConfidence(proc[w].memory)
         /\ ConfidenceOf(proc[w].memory) >= 400 /\ ConfidenceOf(proc[w].memory) < 600
         /\ proc[w].embed_failure # "load" /\ proc[w].store_failure = "none")
        => /\ session_memories = Append(proc[w].pre_session,
                [id |-> Len(proc[w].pre_session) + 1,
                 session_id |-> proc[w].session_id, user_id |-> proc[w].user_id,
                 memory_type |-> proc[w].memory_type,
                 content |-> MemoryContent(proc[w].memory),
                 confidence_score |-> ConfidenceOf(proc[w].memory)])
           /\ global_memories = proc[w].pre_global

\* The same content was routed to the session tier twice for the same
\* session, user and type, and two session records hold it.
C2_Witness ==
    \E w \in Workers :
        /\ RouteDone(w) /\ proc[w].wrote = "session"
        /\ Len(session_memories) = Len(proc[w].pre_session) + 1
        /\ \E i \in 1..Len(proc[w].pre_session) :
              LET old == session_memories[i]
                  new == session_memories[Len(session_memories)]
              IN  /\ old.content = new.content
                  /\ old.session_id = new.session_id
                  /\ old.user_id = new.user_id
                  /\ old.memory_type = new.memory_type
                  /\ old.confidence_score = new.confidence_score

\* C3: a route call for a candidate with confidence >= 0.6, with no global
\* record of the same user and type similar (>= 0.85) to it and no failing
\* collaborator, appends exactly one global record with
\* confidence_score = candidate.confidence, occurrence_count = 1 and
\* source_session_ids = [session_id], changes no other record and returns the
\* new record's id.
C3_GlobalTierInsertsNew ==
    \A w \in Workers :
        (/\ RouteDone(w) /\ WorthSavingOf(proc[w].memory)
         /\ HasNumericConfidence(proc[w].memory)
         /\ ConfidenceOf(proc[w].memory) >= 600
         /\ FailureFree(w)
         /\ SimilarRows(proc[w].pre_global, proc[w].embedding,
                        proc[w].user_id, proc[w].memory_type) = {})
        => /\ Len(global_memories) = Len(proc[w].pre_global) + 1
           /\ \A i \in 1..Len(proc[w].pre_global) :
                 global_memories[i] = proc[w].pre_global[i]
           /\ LET new == global_memories[Len(global_memories)]
              IN  /\ new.id = Len(global_memories)
                  /\ new.user_id = proc[w].user_id
                  /\ new.memory_type = proc[w].memory_type
                  /\ new.content = MemoryContent(proc[w].memory)
                  /\ new.embedding = proc[w].embedding
                  /\ new.confidence_score = ConfidenceOf(proc[w].memory)
                  /\ new.occurrence_count = 1
                  /\ new.source_session_ids = <<proc[w].session_id>>
                  /\ proc[w].ret = RetId(new.id)
           /\ session_memories = proc[w].pre_session

\* A new global record was inserted although another user (or type) already
\* held a record similar to the candidate.
C3_Witness ==
    \E w \in Workers :
        /\ RouteDone(w) /\ proc[w].wrote = "global" /\ FailureFree(w)
        /\ Len(global_memories) = Len(proc[w].pre_global) + 1
        /\ \E i \in 1..Len(proc[w].pre_global) :
              /\ Similarity(proc[w].embedding, proc[w].pre_global[i].embedding) >= 850
              /\ <<proc[w].pre_global[i].user_id, proc[w].pre_global[i].memory_type>>
                    # <<proc[w].user_id, proc[w].memory_type>>

\* C4: in a series of route calls made one after the other, a call for a
\* candidate with confidence >= 0.6 that is similar (>= 0.85) to a global
\* record of the same user and type creates no record: the number of global
\* records is unchanged, a most similar record is the only one updated, and
\* its id is returned.
C4_MergeCreatesNoRecord ==
    \A w \in Workers :
        LET similar == SimilarRows(proc[w].pre_global, proc[w].embedding,
                                   proc[w].user_id, proc[w].memory_type)
            sim(i) == Similarity(proc[w].embedding, proc[w].pre_global[i].embedding)
        IN  (/\ RouteDone(w) /\ WorthSavingOf(proc[w].memory)
             /\ HasNumericConfidence(proc[w].memory)
             /\ ConfidenceOf(proc[w].memory) >= 600
             /\ FailureFree(w)
             /\ similar # {})
            => /\ Len(global_memories) = Len(proc[w].pre_global)
               /\ proc[w].ret.kind = "id"
               /\ proc[w].ret.id \in similar
               /\ \A i \in similar : sim(i) <= sim(proc[w].ret.id)
               /\ global_memories[proc[w].ret.id] # proc[w].pre_global[proc[w].ret.id]
               /\ \A i \in 1..Len(global_memories) :
                     i # proc[w].ret.id => global_memories[i] = proc[w].pre_global[i]
               /\ session_memories = proc[w].pre_session

\* A merge happened when two records of the user and type were similar to the
\* candidate, one more than the other.
C4_Witness ==
    \E w \in Workers :
        LET similar == SimilarRows(proc[w].pre_global, proc[w].embedding,
                                   proc[w].user_id, proc[w].memory_type)
        IN  /\ RouteDone(w) /\ proc[w].wrote = "merge" /\ FailureFree(w)
            /\ \E i, j \in similar :
                  Similarity(proc[w].embedding, proc[w].pre_global[i].embedding)
                    < Similarity(proc[w].embedding, proc[w].pre_global[j].embedding)

\* The call merged into an existing record.
Merged(w) ==
    /\ RouteDone(w) /\ proc[w].wrote = "merge"

\* C6: a merge sets confidence_score to min(1.0, old * 1.2 + 0.1), whatever
\* the candidate's confidence; over route calls made one after the other no
\* global record's confidence_score decreases or exceeds 1.0.
C6_MergeBoostsConfidence ==
    \A w \in Workers :
        /\ Merged(w) =>
              LET old == proc[w].pre_global[proc[w].ret.id].confidence_score
                  boosted == (old * 12) \div 10 + 100
              IN  global_memories[proc[w].ret.id].confidence_score
                    = (IF boosted > 1000 THEN 1000 ELSE boosted)
        /\ RouteDone(w) =>
              \A i \in 1..Len(proc[w].pre_global) :
                 global_memories[i].confidence_score
                    >= proc[w].pre_global[i].confidence_score
        /\ \A i \in 1..Len(global_memories) :
              global_memories[i].confidence_score <= 1000

\* A record of confidence 0.6 was merged into by a candidate of another
\* confidence and now holds 0.82; a second merge brought a record to 1.0.
C6_Witness ==
    \E w \in Workers :
        /\ Merged(w)
        /\ ConfidenceOf(proc[w].memory) # 600
        /\ proc[w].pre_global[proc[w].ret.id].confidence_score = 600
        /\ global_memories[proc[w].ret.id].confidence_score = 820

\* C7: process_and_save_memory never raises to its caller.
C7_NeverRaises ==
    \A w \in Workers : RouteDone(w) => proc[w].ret.kind # "raised"

\* C8: when embedding generation fails during a route call, the call returns
\* null and writes nothing.
C8_EmbeddingFailureAborts ==
    \A w \in Workers :
        (RouteDone(w) /\ proc[w].embed_failure # "none")
        => /\ proc[w].ret = RetNone
           /\ proc[w].wrote = "none"
           /\ global_memories = proc[w].pre_global
           /\ session_memories = proc[w].pre_session

\* C9: a route call that returns null has inserted or updated no record.
C9_NullMeansNotSaved ==
    \A w \in Workers :
        (RouteDone(w) /\ proc[w].ret = RetNone)
        => /\ proc[w].wrote = "none"
           /\ global_memories = proc[w].pre_global
           /\ session_memories = proc[w].pre_session

\* The rows of global_memories that promotions of tracker t inserted.
PromotedRowsOf(t) ==
    {i \in 1..Len(global_memories) :
        /\ global_memories[i].origin = "promotion"
        /\ global_memories[i].tracker_id = t}

\* C5: under any schedule of route calls, interleaved ones included, a
\* global record that n candidates were merged into has occurrence_count
\* equal to its initial count plus n: no merge is lost.
C5_NoLostUpdate ==
    \A i \in 1..Len(global_memories) :
        global_memories[i].occurrence_count =
            global_memories[i].initial_count + global_memories[i].merges

\* C10: a tracker record is promoted at most once, also when a promotion
\* fails part-way or its insert answers without an id: no tracker has two
\* semantic rows promoted from it.
C10_PromotedAtMostOnce ==
    \A t \in 1..Len(episodic_tracker) : Cardinality(PromotedRowsOf(t)) <= 1

\* ------------------------------------------------ properties of the promoter

TrackDone(w) == proc[w].pc = "done" /\ proc[w].op = "track"

\* The call met no failure of the store, the LLM, the parse or the embedding.
TrackFailureFree(w) ==
    /\ proc[w].store_failure = "none"
    /\ proc[w].llm_failure = "none"
    /\ proc[w].embed_failure = "none"

\* The ids of the tracker rows of the call's user and pattern in rows.
TrackerIdsOf(rows, w) ==
    {i \in 1..Len(rows) :
        /\ rows[i].user_id = proc[w].user_id
        /\ rows[i].pattern_hash = proc[w].pattern_hash}

\* C11: in a failure-free run of track_and_promote calls made one after the
\* other for one user and pattern, the first call inserts a tracker with
\* occurrence_count 1 and creates no global record; the second sets the count
\* to 2, creates exactly one semantic global record and sets
\* promoted_to_semantic_id to its id; the third sets the count to 3, creates
\* no global record and leaves promoted_to_semantic_id as it was.
C11_PromotionOnSecondCall ==
    \A w \in Workers :
        (TrackDone(w) /\ TrackFailureFree(w) /\ faults = 0
         /\ proc[w].memory.content.kind = "str")
        => LET before == TrackerIdsOf(proc[w].pre_tracker, w)
               after == TrackerIdsOf(episodic_tracker, w)
           IN  /\ Cardinality(after) = 1
               /\ \A t \in after :
                    LET now == episodic_tracker[t]
                    IN  /\ before = {} =>
                              /\ now.occurrence_count = 1
                              /\ now.promoted_to_semantic_id = 0
                              /\ global_memories = proc[w].pre_global
                              /\ proc[w].ret = RetNone
                        /\ (before # {} /\ proc[w].pre_tracker[t].occurrence_count = 1) =>
                              /\ now.occurrence_count = 2
                              /\ Len(global_memories) = Len(proc[w].pre_global) + 1
                              /\ global_memories[Len(global_memories)].memory_type = "semantic"
                              /\ global_memories[Len(global_memories)].origin = "promotion"
                              /\ SubSeq(global_memories, 1, Len(proc[w].pre_global))
                                    = proc[w].pre_global
                              /\ now.promoted_to_semantic_id = Len(global_memories)
                        /\ (before # {} /\ proc[w].pre_tracker[t].occurrence_count = 2
                            /\ proc[w].pre_tracker[t].promoted_to_semantic_id # 0) =>
                              /\ now.occurrence_count = 3
                              /\ global_memories = proc[w].pre_global
                              /\ now.promoted_to_semantic_id
                                    = proc[w].pre_tracker[t].promoted_to_semantic_id
                              /\ proc[w].ret = RetNone

\* The third call of a failure-free run has finished: the tracker counts 3
\* occurrences and points at the one semantic record promoted from it.
C11_Witness ==
    \E w \in Workers :
        /\ TrackDone(w) /\ TrackFailureFree(w) /\ faults = 0
        /\ \E t \in TrackerIdsOf(episodic_tracker, w) :
              /\ episodic_tracker[t].occurrence_count = 3
              /\ episodic_tracker[t].promoted_to_semantic_id # 0
              /\ proc[w].pre_tracker[t].promoted_to_semantic_id
                    = episodic_tracker[t].promoted_to_semantic_id
              /\ Cardinality(PromotedRowsOf(t)) = 1
              /\ global_memories = proc[w].pre_global

\* The call performed a promotion: it inserted a semantic record and the
\* tracker's promoted_to_semantic_id, unset before the call, is now set.
Promoted(w) ==
    /\ TrackDone(w) /\ proc[w].wrote = "promotion"
    /\ \E t \in TrackerIdsOf(episodic_tracker, w) :
          /\ proc[w].pre_tracker[t].promoted_to_semantic_id = 0
          /\ episodic_tracker[t].promoted_to_semantic_id # 0

ReplyUnusable(w) ==
    \/ proc[w].llm_failure = "parse"
    \/ (proc[w].embedded /\ ~proc[w].insight_given)

\* C13: when the reply of the promoter's LLM cannot be parsed into the
\* expected structure (no valid JSON, or no insight in it), the promotion is
\* abandoned: the call returns null, no global record is inserted, no default
\* insight text is stored and promoted_to_semantic_id stays unset.
C13_UnparsedReplyAbandons ==
    /\ \A w \in Workers :
          (TrackDone(w) /\ ReplyUnusable(w))
          => /\ proc[w].ret = RetNone
             /\ global_memories = proc[w].pre_global
             /\ \A t \in TrackerIdsOf(episodic_tracker, w) :
                   episodic_tracker[t].promoted_to_semantic_id = 0
    /\ \A i \in 1..Len(global_memories) :
          global_memories[i].content # PyStr(DefaultInsight)

\* ----------------------------------------- properties of compute_pattern_hash

\* C14: compute_pattern_hash is invariant to word order and letter case: a
\* content and any rewording of it that keeps the words, up to case and
\* order, have the same hash.
C14_HashOrderCaseInvariant ==
    hash_run.rewords > 0 => hash_run.hash_a = hash_run.hash_b

\* ------------------------------------------- properties of the global records

\* C15: after any series of route and track_and_promote calls made one after
\* the other, no two global records of the same user and memory_type are
\* similar (>= 0.85) to each other, records created by promotion included.
C15_NoSimilarGlobalPair ==
    \A i, j \in 1..Len(global_memories) :
        (/\ i < j
         /\ global_memories[i].user_id = global_memories[j].user_id
         /\ global_memories[i].memory_type = global_memories[j].memory_type)
        => Similarity(global_memories[i].embedding, global_memories[j].embedding)
              < SIMILARITY_THRESHOLD

\* The pairs of distinct global records of one user and memory_type that are
\* similar (>= 0.85) to each other.
NearDuplicates ==
    {<<i, j>> \in (1..Len(global_memories)) \X (1..Len(global_memories)) :
        /\ i < j
        /\ global_memories[i].user_id = global_memories[j].user_id
        /\ global_memories[i].memory_type = global_memories[j].memory_type
        /\ Similarity(global_memories[i].embedding, global_memories[j].embedding)
              >= SIMILARITY_THRESHOLD}

\* C16: the similarity search and the write of a route call are not atomic:
\* a caller that observed no match inserts its record with occurrence_count 1
\* whatever the store holds by then, a record similar to it that another
\* caller inserted in the meantime included.
C16_InsertAfterStaleSearch ==
    [][\A w \in Workers :
          (/\ proc[w].pc = "insert_global"
           /\ proc'[w].pc = "done"
           /\ proc'[w].store_failure = "none")
          => /\ Len(global_memories') = Len(global_memories) + 1
             /\ SubSeq(global_memories', 1, Len(global_memories)) = global_memories
             /\ LET new == global_memories'[Len(global_memories')]
                IN  /\ new.embedding = proc[w].embedding
                    /\ new.user_id = proc[w].user_id
                    /\ new.memory_type = proc[w].memory_type
                    /\ new.occurrence_count = 1
                    /\ new.merges = 0
                    /\ proc'[w].ret = RetId(new.id)]_vars

\* Two callers routed similar high-confidence content for one user and type,
\* both observed no match and both inserted without any failure: two
\* near-duplicate records, each with occurrence_count 1.
C16_Witness ==
    /\ faults = 0
    /\ \A w \in Workers : RouteDone(w) /\ proc[w].wrote = "global"
    /\ \E p \in NearDuplicates :
          /\ global_memories[p[1]].occurrence_count = 1
          /\ global_memories[p[2]].occurrence_count = 1
          /\ {proc[w].ret.id : w \in Workers} = {p[1], p[2]}

\* C17: in every reachable state, states reached by concurrent
\* track_and_promote calls for a pattern without a tracker included, there is
\* at most one tracker record per (user_id, pattern_hash).
C17_OneTrackerPerPattern ==
    \A i, j \in 1..Len(episodic_tracker) :
        (/\ episodic_tracker[i].user_id = episodic_tracker[j].user_id
         /\ episodic_tracker[i].pattern_hash = episodic_tracker[j].pattern_hash)
        => i = j

\* ------------------------------------------------ properties of the retriever

\* The session records that the last retrieve_memories call asked for: those
\* of its session whose memory_type is among the requested types.
RequestedSessionRows ==
    {i \in 1..Len(session_memories) :
        /\ session_memories[i].session_id = retrieved.query.session_id
        /\ session_memories[i].memory_type \in retrieved.query.memory_types}

\* C18: retrieve_memories puts no record into the bucket of another type:
\* the semantic bucket holds only records of memory_type semantic and the
\* procedural bucket only records of memory_type procedural.
C18_BucketsHoldOwnType ==
    retrieved.called =>
        \A b \in {"semantic", "procedural"} :
            \A k \in 1..Len(retrieved.result[b]) :
                /\ retrieved.result[b][k].memory_type = b
                /\ retrieved.result[b][k].table \in {"global_memories", "session_memories"}

\* A retrieval without failure filled the semantic and the procedural bucket
\* while the store also returned a session record of type episodic.
C18_Witness ==
    /\ retrieved.called /\ retrieved.failed = {}
    /\ retrieved.result["semantic"] # <<>>
    /\ retrieved.result["procedural"] # <<>>
    /\ \E i \in RequestedSessionRows : session_memories[i].memory_type = "episodic"

\* The places <<row id, position>> of the episodic memories saved for the
\* session of the last retrieve_memories call.
SessionEpisodicPlaces ==
    UNION { {<<i, k>> : k \in 1..Len(memories[i].episodic_memories)} :
            i \in {r \in 1..Len(memories) :
                     memories[r].session_id = retrieved.query.session_id} }

\* C19: when the episodic fetch does not fail, the episodic bucket is exactly
\* the list of the episodic memories saved for the session, in storage order,
\* whatever confidence_threshold, memory_types and top_k are.
C19_EpisodicBucketIsSessionEpisodics ==
    (retrieved.called /\ "episodic" \notin retrieved.failed) =>
        LET bucket == retrieved.result["episodic"]
        IN  /\ Len(bucket) = Cardinality(SessionEpisodicPlaces)
            /\ \A k \in 1..Len(bucket) :
                  /\ bucket[k].table = "memories"
                  /\ <<bucket[k].id, bucket[k].pos>> \in SessionEpisodicPlaces
                  /\ bucket[k].content
                        = memories[bucket[k].id].episodic_memories[bucket[k].pos]
            /\ \A k, l \in 1..Len(bucket) :
                  k < l => \/ bucket[k].id < bucket[l].id
                           \/ (bucket[k].id = bucket[l].id /\ bucket[k].pos < bucket[l].pos)

\* A retrieval with a high confidence floor and top_k 1 returned the two
\* episodic memories of the session while a session record of type episodic
\* was among those fetched.
C19_Witness ==
    /\ retrieved.called /\ retrieved.failed = {}
    /\ retrieved.query.confidence_threshold = 900 /\ retrieved.query.top_k = 1
    /\ Len(retrieved.result["episodic"]) = 2
    /\ \E i \in RequestedSessionRows : session_memories[i].memory_type = "episodic"

\* C20: every session record of the session whose memory_type is requested
\* appears in the bucket of its type, in creation order and after the global
\* records of the bucket, for each requested type, episodic included.
C20_SessionRecordsInOwnBucket ==
    (retrieved.called /\ retrieved.failed = {}) =>
        \A b \in Buckets :
            LET bucket == retrieved.result[b]
            IN  /\ \A i \in RequestedSessionRows :
                      session_memories[i].memory_type = b =>
                          \E k \in 1..Len(bucket) :
                              bucket[k].table = "session_memories" /\ bucket[k].id = i
                /\ \A k, l \in 1..Len(bucket) :
                      (k < l /\ bucket[k].table = "session_memories")
                      => (bucket[l].table = "session_memories" /\ bucket[k].id < bucket[l].id)

\* What the three sources of the retrieval return when their store call
\* does not raise.
GlobalSourceOf(q) ==
    IF "semantic" \in q.memory_types \/ "procedural" \in q.memory_types
    THEN RetrieveGlobalMemories(global_memories, q.query_embedding, q.memory_types,
                                q.confidence_threshold, q.user_id, q.top_k, FALSE)
    ELSE <<>>

SessionSourceOf(q) ==
    FetchSessionMemories(session_memories, q.session_id, q.memory_types, FALSE)

EpisodicSourceOf(q) == FetchCurrentSessionEpisodics(memories, q.session_id, FALSE)

InSomeBucket(result, m) ==
    \E b \in Buckets : \E k \in 1..Len(result[b]) : result[b][k] = m

AllInBuckets(result, mems) == \A k \in 1..Len(mems) : InSomeBucket(result, mems[k])

\* C21: failures of the three retrieval sources are isolated: whichever
\* store call raises, the buckets returned by retrieve_memories hold
\* everything the sources that did not fail return, and when all three fail
\* the three buckets are empty.
C21_FailureIsolation ==
    (retrieved.called /\ retrieved.failed # {}) =>
        /\ ("global" \notin retrieved.failed =>
               AllInBuckets(retrieved.result, GlobalSourceOf(retrieved.query)))
        /\ ("session" \notin retrieved.failed =>
               AllInBuckets(retrieved.result, SessionSourceOf(retrieved.query)))
        /\ ("episodic" \notin retrieved.failed =>
               AllInBuckets(retrieved.result, EpisodicSourceOf(retrieved.query)))
        /\ (retrieved.failed = {"global", "session", "episodic"} =>
               retrieved.result = EmptyResult)

\* ------------------------------------------ properties of the unified extraction

\* The reply parsed is an object with session_summary and memories.
ParsedBatch ==
    /\ extraction.op = "parse"
    /\ extraction.llm.content.form \in {"json", "fenced"}
    /\ extraction.llm.content.has_summary
    /\ extraction.llm.content.has_memories

\* C22: _parse_unified_extraction keeps every candidate of the batch whatever
\* its confidence and worth_saving fields are: each returned candidate has a
\* numeric confidence and a boolean worth_saving, confidence is 0.5 where the
\* key is absent and worth_saving is (confidence >= 0.4) where the key is
\* absent.
C22_ParseKeepsEveryCandidate ==
    ParsedBatch =>
        \A t \in ExtractionTypes :
            LET given == extraction.llm.content.lists[t].items
                kept == extraction.result.memories[t]
            IN  /\ Len(kept) = Len(given)
                /\ \A k \in 1..Len(kept) :
                      /\ kept[k].content = given[k].content
                      /\ kept[k].confidence.kind = "num"
                      /\ kept[k].worth_saving.kind = "bool"
                      /\ (given[k].confidence.kind = "absent" =>
                             kept[k].confidence.n = DEFAULT_CONFIDENCE)
                      /\ (given[k].worth_saving.kind = "absent" =>
                             kept[k].worth_saving.b = (kept[k].confidence.n >= DISCARD_THRESHOLD))

\* The classification of an extraction call failed: the LLM call raised, or
\* its text is empty, no JSON, or a JSON object lacking session_summary or
\* memories.
ClassificationFailed ==
    /\ extraction.op = "extract"
    /\ \/ extraction.llm.raises
       \/ extraction.llm.content.form \notin {"json", "fenced"}
       \/ ~extraction.llm.content.has_summary
       \/ ~extraction.llm.content.has_memories

\* C23: extract_all_with_summary_unified never propagates a classification
\* failure: for every messages and session_id, a null session_id included, a
\* call whose classification failed returns the empty extraction result and
\* does not raise.
C23_ExtractionFailureGivesEmptyResult ==
    ClassificationFailed =>
        /\ ~extraction.raised
        /\ extraction.result = EmptyExtractionResult

\* --------------------------------------------- properties of the global records

\* C24: every record of global_memories has confidence_score >= 0.6, after
\* any sequence of route and track_and_promote operations, whatever the
\* confidences the classifier and the promoter's LLM give.
C24_GlobalConfidenceAtLeastThreshold ==
    \A i \in 1..Len(global_memories) :
        global_memories[i].confidence_score >= GLOBAL_THRESHOLD

\* The sequence holds no element twice.
IsSetLike(q) == \A i, j \in 1..Len(q) : q[i] = q[j] => i = j

\* C25: source_session_ids of every record of global_memories holds no
\* session id twice, after any sequence of route merges and promotions.
C25_SourceSessionIdsDistinct ==
    \A i \in 1..Len(global_memories) : IsSetLike(global_memories[i].source_session_ids)

\* ------------------------------------------ properties of the EmbeddingService

EmbedDone(t) == embed_proc[t].pc = "done"

\* C26: embed_text returns the all-zero vector for a text that is empty,
\* blank or no string, and does not raise, whether the model is loaded, not
\* yet loaded or failing to load.
C26_ZeroVectorForInvalidText ==
    \A t \in Workers :
        (EmbedDone(t) /\ (EmptyText(embed_proc[t].text) \/ embed_proc[t].text.kind # "str")) =>
            /\ ~embed_proc[t].raised
            /\ embed_proc[t].vec = ZeroVec

\* The callers whose construction has returned hold the one instance made.
OneInstanceShared ==
    /\ service.created <= 1
    /\ \A t \in Workers : embed_proc[t].self # 0 => embed_proc[t].self = service.instance

\* A caller at the encode step finds the model loaded.
EncodeOnlyWhenLoaded ==
    \A t \in Workers : embed_proc[t].pc = "encode" => (model_loaded /\ service.model)

\* The step of caller t is a load that fails.
LoadFails(t) == embed_proc[t].pc = "load_try" /\ embed_proc'[t].failure = "load"

\* C27: under any interleaving of constructions and embed_text calls, the
\* callers share one instance, the model is loaded successfully at most once
\* and no caller is at the encode step while the model is unloaded; a load
\* that fails leaves the service unloaded with the lock free, so that the
\* next call tries the load again.
C27_OneInstanceOneLoad ==
    /\ [](OneInstanceShared /\ service.loads <= 1 /\ EncodeOnlyWhenLoaded)
    /\ [][\A t \in Workers :
              LoadFails(t) => (~model_loaded' /\ ~service'.model /\ service'.lock = "none")]_vars

\* One caller's load failed, and a later load succeeded: the other caller,
\* holding the same instance, got an embedding from the model.
C27_Witness ==
    /\ service.created = 1 /\ service.loads = 1
    /\ embed_proc["w1"].pc = "done" /\ embed_proc["w1"].failure = "load"
    /\ embed_proc["w2"].pc = "done" /\ embed_proc["w2"].load_tried
    /\ embed_proc["w2"].self = embed_proc["w1"].self
    /\ embed_proc["w2"].vec = EmbeddingOf(TxtA)

\* ------------------------------------------ properties of _get_llm_response

\* The attempt with this reply gives no list.
AttemptFails(reply) == ParseAttempt(reply).kind # "list"

LlmCalls == Len(llm_run.replies)

\* What holds of a call of _get_llm_response at every moment: at most
\* max_retries LLM calls, none after one that gave a list; a return gives
\* the list parsed from the last reply; a raise comes after max_retries
\* failed attempts; a sleep follows each failed attempt but the last.
LlmRunBounded ==
    /\ LlmCalls <= llm_run.max_retries
    /\ \A k \in 1..(LlmCalls - 1) : AttemptFails(llm_run.replies[k])
    /\ (llm_run.pc = "running" =>
           /\ llm_run.sleeps = LlmCalls
           /\ \A k \in 1..LlmCalls : AttemptFails(llm_run.replies[k]))
    /\ (llm_run.pc = "returned" =>
           /\ LlmCalls >= 1
           /\ llm_run.value = ParseAttempt(llm_run.replies[LlmCalls])
           /\ llm_run.value.kind = "list"
           /\ llm_run.sleeps = LlmCalls - 1)
    /\ (llm_run.pc = "raised" =>
           /\ LlmCalls = llm_run.max_retries
           /\ \A k \in 1..LlmCalls : AttemptFails(llm_run.replies[k])
           /\ llm_run.sleeps = Max(0, LlmCalls - 1))

\* C28: _get_llm_response terminates after at most max_retries LLM calls: it
\* returns the list parsed from the first attempt that gives one and calls
\* no more; when every attempt fails (the call raising, a JSON error, a value
\* that is no list) it raises after exactly max_retries calls, having slept
\* only between attempts; it never returns a value that is no list.
C28_RetriesBoundedAndTerminate ==
    /\ []LlmRunBounded
    /\ (llm_run.pc = "running" ~> llm_run.pc \in {"returned", "raised"})

\* A call with the default max_retries whose first reply is an object, whose
\* second is no JSON and whose third gives the list returned.
C28_Witness ==
    /\ llm_run.pc = "returned" /\ llm_run.max_retries = DEFAULT_MAX_RETRIES
    /\ LlmCalls = DEFAULT_MAX_RETRIES
    /\ ParseAttempt(llm_run.replies[1]).kind = "object"
    /\ llm_run.replies[2] = CallRaises
    /\ llm_run.value.items = <<1, 2>>

\* --------------------------------------------- properties of the trackers

\* occurrence_count is the length of occurrences in every tracker.
CountIsLength ==
    \A i \in 1..Len(episodic_tracker) :
        episodic_tracker[i].occurrence_count = Len(episodic_tracker[i].occurrences)

\* No step lowers the occurrence_count of a tracker.
CountNeverDecreases ==
    \A i \in 1..Len(episodic_tracker) :
        episodic_tracker'[i].occurrence_count >= episodic_tracker[i].occurrence_count

\* C29: whatever the interleaving of the track_and_promote calls, every
\* tracker has occurrence_count = len(occurrences), and the occurrence_count
\* of a tracker never decreases.
C29_TrackerCountConsistent ==
    /\ []CountIsLength
    /\ [][CountNeverDecreases]_vars

\* The rows of a table owned by the user.
OwnRows(rows, user_id) ==
    LET Own(r) == r.user_id = user_id
    IN  SelectSeq(rows, Own)

\* C30: retrieve_memories(user_id = U, session_id = S, ...) returns the
\* buckets it would return from a store holding U's records only: no record
\* of another user changes the result, so none is returned, even one that
\* carries session_id S.
C30_RetrievalUserIsolation ==
    retrieved.called =>
        retrieved.result =
            RetrieveFrom(OwnRows(global_memories, retrieved.query.user_id),
                         OwnRows(session_memories, retrieved.query.user_id),
                         OwnRows(memories, retrieved.query.user_id),
                         retrieved.query, retrieved.failed)

====
